---------------------------- MODULE Spec2Model ----------------------------
(***************************************************************************)
(* Model of the foodgram backend (bauklu/foodgram): the recipe serializer  *)
(* (validate / create / update), the recipe, favorite, shopping-cart,      *)
(* subscription, ingredient and tag endpoints with their permissions, and  *)
(* the shopping-cart export, over the tables of recipes/models.py.         *)
(***************************************************************************)
EXTENDS Integers, Sequences, FiniteSets, Bags, TLC

(***************************************************************************)
(* Python values.  None is the empty tuple and a present value v is <<v>>, *)
(* so that dict.get(key) of a missing key and a key holding a value are    *)
(* always comparable.                                                      *)
(***************************************************************************)
None == << >>

Some(v) == << v >>

Val(x) == x[1]

Range(s) == { s[i] : i \in DOMAIN s }

SeqsUpTo(S, n) == UNION { [1..k -> S] : k \in 0..n }

(***************************************************************************)
(* Bounds of the model.                                                    *)
(***************************************************************************)
\* longest ingredient list of a draft handed to RecipeSerializer.validate
MaxIngredients == 2

\* longest tag list of a draft handed to RecipeSerializer.validate
MaxTags == 2

\* most rows added to the Ingredient table, and to the Tag table, by requests
MaxNewReferenceRows == 1

(***************************************************************************)
(* Reference data.  Ingredient rows as loaded by load_ingredients: the     *)
(* pair (name, measurement_unit) is unique.  Tag rows by primary key.      *)
(***************************************************************************)
IngredientTable ==
    (1 :> [name |-> "Salt", measurement_unit |-> "g"]) @@
    (2 :> [name |-> "Egg", measurement_unit |-> "pcs"]) @@
    (3 :> [name |-> "Salt", measurement_unit |-> "kg"])

TagTable == {1, 2}

\* ingredient ids a request may name: the stored ones and one that is not stored
RequestIngredientIds == {1, 2, 9}

\* amounts a request may name
RequestAmounts == {0, 1, 2}

\* the request handlers that run side by side (worker processes of the server)
Clients == {1, 2}

\* rows of the User table; users in StaffUsers have is_staff set
Users == {1, 2}

StaffUsers == {2}

\* request.user of a request without a token: AnonymousUser
Anonymous == 0

\* who may send a request
Callers == Users \cup {Anonymous}

VARIABLES
    ingredientRows,        \* table Ingredient: id -> [name, measurement_unit]
    tagRows,               \* table Tag: set of ids
    recipeRows,            \* table Recipe: id -> [author, name, text, cooking_time, image]
    recipeTagRows,         \* table of Recipe.tags: set of <<recipe, tag>>
    recipeIngredientRows,  \* table RecipeIngredient: set of [recipe, ingredient, quantity]
    lastRecipeId,          \* the primary key sequence of Recipe
    lastReferenceId,       \* the primary key sequences of Ingredient and Tag
    shoppingCartRows,      \* table ShoppingCart: bag of <<user, recipe>>
    favoriteRows,          \* table Favorite: bag of <<user, recipe>>
    subscribeRows,         \* table Subscribe: bag of <<user, subscription>>
    pc,                    \* per client: the statement its handler is at
    req,                   \* per client: the request it is serving
    loc,                   \* per client: the local variables of the handler
    resp,                  \* per client: None, or <<response>> of the request served
    versions,              \* history: <<recipe, version>> for every create/update that began writing
    vdata,                 \* RecipeSerializer.validate: the attrs it is called with
    vresult                \* RecipeSerializer.validate: None before the call, then <<outcome>>

relationTables == << shoppingCartRows, favoriteRows, subscribeRows >>

referenceTables == << ingredientRows, tagRows, lastReferenceId >>

tables == << referenceTables, recipeRows, recipeTagRows,
             recipeIngredientRows, lastRecipeId, relationTables >>

clients == << pc, req, loc, resp, versions >>

vars == << tables, clients, vdata, vresult >>

(***************************************************************************)
(* The tables ShoppingCart, Favorite and Subscribe hold a pair of foreign  *)
(* keys per row and the row's own primary key.  Such a table is a bag of   *)
(* pairs: a pair stored in two rows is a pair with two copies.             *)
(***************************************************************************)
\* QuerySet.filter(<the pair>).exists()
row_exists(rows, pair) == BagIn(pair, rows)

\* Model.objects.create(<the pair>): the INSERT of one more row
insert_row(rows, pair) == rows (+) SetToBag({pair})

\* QuerySet.filter(<the pair>).delete(): every row holding the pair goes
delete_rows(rows, pair) == [p \in BagToSet(rows) \ {pair} |-> rows[p]]

(***************************************************************************)
(* RecipeSerializer.validate (api/serializers.py 223-275).                 *)
(* attrs is the dict of the fields that passed field validation; a key     *)
(* that is absent holds None, a key that is present holds <<value>>.       *)
(* An ingredient entry is a dict read with item.get('id') and              *)
(* item.get('amount').                                                     *)
(***************************************************************************)
ValidationError(kind, arg) ==
    [ok |-> FALSE, kind |-> kind, arg |-> arg, data |-> None]

Validated(data) ==
    [ok |-> TRUE, kind |-> "ok", arg |-> None, data |-> Some(data)]

\* dict.get(key): the value under the key, None when the dict has no such key
dict_get(d, key) == IF key \in DOMAIN d THEN Some(d[key]) ELSE None

\* lines 245-246: what validate reads of an entry, item.get('id') and
\* item.get('amount')
read_item(item) == [id |-> dict_get(item, "id"), amount |-> dict_get(item, "amount")]

\* data.get(key, []) of lines 225-226
GetOrEmpty(field) == IF field = None THEN << >> ELSE Val(field)

\* check_item looking the ingredient up before it checks the amount
check_item_lookup_first(item, ingredient_ids, ingredients_table) ==
    IF item.id = None \/ item.amount = None
        THEN ValidationError("MissingField", None)
    ELSE IF Val(item.id) \in ingredient_ids
        THEN ValidationError("DuplicateIngredient", item.id)
    ELSE IF Val(item.id) \notin DOMAIN ingredients_table
        THEN ValidationError("IngredientNotFound", item.id)
    ELSE IF Val(item.amount) < 1
        THEN ValidationError("InvalidAmount", item.id)
    ELSE Validated([ingredient |-> Val(item.id), quantity |-> Val(item.amount)])

\* check_item with the amount checked before the duplicate
check_item_amount_first(item, ingredient_ids, ingredients_table) ==
    IF item.id = None \/ item.amount = None
        THEN ValidationError("MissingField", None)
    ELSE IF Val(item.amount) < 1
        THEN ValidationError("InvalidAmount", item.id)
    ELSE IF Val(item.id) \in ingredient_ids
        THEN ValidationError("DuplicateIngredient", item.id)
    ELSE IF Val(item.id) \notin DOMAIN ingredients_table
        THEN ValidationError("IngredientNotFound", item.id)
    ELSE Validated([ingredient |-> Val(item.id), quantity |-> Val(item.amount)])

\* lines 248-267: the checks made on one entry, in the order of the code;
\* ingredient_ids is the set of ids accepted so far
check_item(item, ingredient_ids, ingredients_table) ==
    IF item.id = None \/ item.amount = None
        THEN ValidationError("MissingField", None)
    ELSE IF Val(item.id) \in ingredient_ids
        THEN ValidationError("DuplicateIngredient", item.id)
    ELSE IF Val(item.amount) < 1
        THEN ValidationError("InvalidAmount", item.id)
    ELSE IF Val(item.id) \notin DOMAIN ingredients_table
        THEN ValidationError("IngredientNotFound", item.id)
    ELSE Validated([ingredient |-> Val(item.id), quantity |-> Val(item.amount)])

\* append_validated inserting at the front
append_validated_front(validated_ingredients, line) == << line >> \o validated_ingredients

\* lines 268-271: validated_ingredients.append(...)
append_validated(validated_ingredients, line) == Append(validated_ingredients, line)

\* lines 241-272: the loop over the entries, from entry i on
RECURSIVE walk_ingredients(_, _, _, _, _)
walk_ingredients(ingredients, i, validated_ingredients, ingredient_ids, ingredients_table) ==
    IF i > Len(ingredients)
        THEN Validated(validated_ingredients)
    ELSE LET checked == check_item(ingredients[i], ingredient_ids, ingredients_table) IN
         IF ~checked.ok
             THEN checked
         ELSE walk_ingredients(
                  ingredients, i + 1,
                  append_validated(validated_ingredients, Val(checked.data)),
                  ingredient_ids \cup {Val(ingredients[i].id)},
                  ingredients_table)

\* check_lists with the tags checked before the ingredients
check_lists_tags_first(ingredients, tags) ==
    IF tags = << >>
        THEN ValidationError("EmptyTags", None)
    ELSE IF Len(tags) # Cardinality(Range(tags))
        THEN ValidationError("DuplicateTag", None)
    ELSE IF ingredients = << >>
        THEN ValidationError("EmptyIngredients", None)
    ELSE Validated(None)

\* lines 227-239: the checks made before the loop
check_lists(ingredients, tags) ==
    IF ingredients = << >>
        THEN ValidationError("EmptyIngredients", None)
    ELSE IF tags = << >>
        THEN ValidationError("EmptyTags", None)
    ELSE IF Len(tags) # Cardinality(Range(tags))
        THEN ValidationError("DuplicateTag", None)
    ELSE Validated(None)

\* validate walking the ingredient entries before it checks the tags
validate_walk_first(data, ingredients_table) ==
    LET ingredients == GetOrEmpty(data.ingredients)
        tags == GetOrEmpty(data.tags)
        lists == check_lists(ingredients, tags)
        walked == walk_ingredients(ingredients, 1, << >>, {}, ingredients_table)
    IN  IF ingredients = << >> THEN lists
        ELSE IF ~walked.ok THEN walked
        ELSE IF ~lists.ok THEN lists
        ELSE Validated([data EXCEPT !.ingredients = walked.data])

\* lines 223-275
validate(data, ingredients_table) ==
    LET ingredients == GetOrEmpty(data.ingredients)
        tags == GetOrEmpty(data.tags)
        lists == check_lists(ingredients, tags)
        walked == walk_ingredients(ingredients, 1, << >>, {}, ingredients_table)
    IN  IF ~lists.ok THEN lists
        ELSE IF ~walked.ok THEN walked
        ELSE Validated([data EXCEPT !.ingredients = walked.data])

(***************************************************************************)
(* The attrs validate can be called with.                                  *)
(***************************************************************************)
Items ==
    [id : {None} \cup { Some(i) : i \in RequestIngredientIds },
     amount : {None} \cup { Some(a) : a \in RequestAmounts }]

IngredientLists == SeqsUpTo(Items, MaxIngredients)

TagLists == SeqsUpTo(TagTable, MaxTags)

ScalarSets ==
    { [name |-> None, text |-> None, cooking_time |-> None, image |-> None],
      [name |-> Some("borsch"), text |-> Some("boil"), cooking_time |-> Some(1),
       image |-> Some("a.png")],
      [name |-> Some("salad"), text |-> None, cooking_time |-> Some(2),
       image |-> None] }

Attrs(scalars, ingredients, tags) ==
    [name |-> scalars.name, text |-> scalars.text,
     cooking_time |-> scalars.cooking_time, image |-> scalars.image,
     ingredients |-> ingredients, tags |-> tags]

AllAttrs ==
    { Attrs(s, i, t) :
        s \in ScalarSets,
        i \in {None} \cup { Some(l) : l \in IngredientLists },
        t \in {None} \cup { Some(l) : l \in TagLists } }

(***************************************************************************)
(* Specification of one call of RecipeSerializer.validate.                 *)
(***************************************************************************)
\* the Ingredient rows of load_ingredients and the Tag rows, keys 1..n
InitReference ==
    /\ ingredientRows = IngredientTable
    /\ tagRows = TagTable
    /\ lastReferenceId = [ingredient |-> Cardinality(DOMAIN IngredientTable),
                          tag |-> Cardinality(TagTable)]

\* the database after migrate and load_ingredients: reference data only
InitTables ==
    /\ InitReference
    /\ recipeRows = << >>
    /\ recipeTagRows = {}
    /\ recipeIngredientRows = {}
    /\ lastRecipeId = 0
    /\ shoppingCartRows = EmptyBag
    /\ favoriteRows = EmptyBag
    /\ subscribeRows = EmptyBag

NoRequest ==
    [op |-> "none", user |-> 0, pk |-> 0, partial |-> FALSE, data |-> None]

NoLocals == [instance |-> None, validated |-> None, recipes |-> None]

InitClients ==
    /\ pc = [c \in Clients |-> "idle"]
    /\ req = [c \in Clients |-> NoRequest]
    /\ loc = [c \in Clients |-> NoLocals]
    /\ resp = [c \in Clients |-> None]
    /\ versions = {}

InitValidate ==
    /\ InitTables
    /\ InitClients
    /\ vdata \in AllAttrs
    /\ vresult = None

CallValidate ==
    /\ vresult = None
    /\ vresult' = Some(validate(vdata, ingredientRows))
    /\ UNCHANGED << tables, clients, vdata >>

NextValidate == CallValidate

SpecValidate == InitValidate /\ [][NextValidate]_vars

(***************************************************************************)
(* Properties of RecipeSerializer.validate, stated on the entries of the   *)
(* draft and not on the walk of the code.                                  *)
(***************************************************************************)
VIngredients == GetOrEmpty(vdata.ingredients)

VTags == GetOrEmpty(vdata.tags)

VCalled == vresult # None

VResult == Val(vresult)

TagsAcceptable == VTags # << >> /\ Len(VTags) = Cardinality(Range(VTags))

EntryMissing(i) == VIngredients[i].id = None \/ VIngredients[i].amount = None

EntryDuplicate(i) ==
    /\ VIngredients[i].id # None
    /\ \E j \in 1..(i - 1) : VIngredients[j].id = VIngredients[i].id

EntryBadAmount(i) ==
    VIngredients[i].amount # None /\ Val(VIngredients[i].amount) < 1

EntryNotFound(i) ==
    VIngredients[i].id # None /\ Val(VIngredients[i].id) \notin DOMAIN ingredientRows

EntryFails(i) ==
    EntryMissing(i) \/ EntryDuplicate(i) \/ EntryBadAmount(i) \/ EntryNotFound(i)

FailingEntries == { i \in DOMAIN VIngredients : EntryFails(i) }

FirstFailing == CHOOSE i \in FailingEntries : \A j \in FailingEntries : i <= j

\* the error the priority MissingField > DuplicateIngredient > InvalidAmount >
\* IngredientNotFound gives for entry i
PriorityError(i) ==
    IF EntryMissing(i) THEN ValidationError("MissingField", None)
    ELSE IF EntryDuplicate(i) THEN ValidationError("DuplicateIngredient", VIngredients[i].id)
    ELSE IF EntryBadAmount(i) THEN ValidationError("InvalidAmount", VIngredients[i].id)
    ELSE ValidationError("IngredientNotFound", VIngredients[i].id)

\* C1: with non-empty ingredients and a non-empty duplicate-free tag list,
\* validate fails exactly when some entry fails, and then reports the error of
\* the first failing entry in input order, chosen by the fixed priority
\* MissingField > DuplicateIngredient > InvalidAmount > IngredientNotFound.
C1_FirstFailingEntryByPriority ==
    (VCalled /\ VIngredients # << >> /\ TagsAcceptable) =>
        IF FailingEntries = {}
            THEN VResult.ok
            ELSE VResult = PriorityError(FirstFailing)

\* a second entry that is a duplicate with amount < 1, after a first that passed
C1_Witness ==
    /\ VCalled /\ TagsAcceptable
    /\ Len(VIngredients) = 2
    /\ FailingEntries = {2}
    /\ EntryDuplicate(2) /\ EntryBadAmount(2)
    /\ VResult.kind = "DuplicateIngredient"

\* C2: a draft whose ingredient list is empty or absent fails with
\* EmptyIngredients, whatever its tags and its other fields are.
C2_EmptyIngredientsFirst ==
    (VCalled /\ VIngredients = << >>) =>
        VResult = ValidationError("EmptyIngredients", None)

\* no ingredients and a repeated tag
C2_Witness ==
    /\ VCalled
    /\ VIngredients = << >>
    /\ Len(VTags) # Cardinality(Range(VTags))
    /\ VResult.kind = "EmptyIngredients"

\* C3: with non-empty ingredients, an empty tag list fails with EmptyTags and a
\* tag list with a repeated id fails with DuplicateTag, also when an
\* ingredient entry would itself fail.
C3_TagsBeforeIngredientWalk ==
    (VCalled /\ VIngredients # << >>) =>
        /\ VTags = << >> => VResult = ValidationError("EmptyTags", None)
        /\ (VTags # << >> /\ Len(VTags) # Cardinality(Range(VTags))) =>
               VResult = ValidationError("DuplicateTag", None)

\* a repeated tag together with a failing ingredient entry
C3_Witness ==
    /\ VCalled
    /\ VIngredients # << >>
    /\ FailingEntries # {}
    /\ Len(VTags) # Cardinality(Range(VTags))
    /\ VResult.kind = "DuplicateTag"

\* C4: when validate succeeds, the returned draft keeps the scalar fields and
\* the tag list, and its ingredient lines are one per input entry, in input
\* order, with quantity = amount >= 1, each of a stored Ingredient, no
\* ingredient twice.
C4_NormalizedDraft ==
    (VCalled /\ VResult.ok) =>
        LET out == Val(VResult.data)
            lines == Val(out.ingredients)
        IN  /\ out.name = vdata.name
            /\ out.text = vdata.text
            /\ out.cooking_time = vdata.cooking_time
            /\ out.image = vdata.image
            /\ out.tags = vdata.tags
            /\ Len(lines) = Len(VIngredients)
            /\ \A i \in DOMAIN lines :
                   /\ lines[i].ingredient = Val(VIngredients[i].id)
                   /\ lines[i].quantity = Val(VIngredients[i].amount)
                   /\ lines[i].quantity >= 1
                   /\ lines[i].ingredient \in DOMAIN ingredientRows
            /\ \A i, j \in DOMAIN lines :
                   lines[i].ingredient = lines[j].ingredient => i = j

\* a successful validation of two entries with different amounts
C4_Witness ==
    /\ VCalled /\ VResult.ok
    /\ Len(Val(Val(VResult.data).ingredients)) = 2
    /\ Val(VIngredients[1].amount) # Val(VIngredients[2].amount)
    /\ vdata.name # None

(***************************************************************************)
(* The recipe endpoints: RecipeViewSet create / update / partial_update /  *)
(* retrieve (api/views.py 248-390) with RecipeSerializer.create and        *)
(* RecipeSerializer.update (api/serializers.py 283-330).  No statement of  *)
(* the repository opens a transaction (settings.py sets no ATOMIC_REQUESTS *)
(* and nothing uses transaction.atomic), so every ORM statement commits on *)
(* its own and the handlers of two requests interleave between statements. *)
(***************************************************************************)
\* primary keys the Recipe sequence hands out
RecipeIds == {1}

Request(op, user, pk, partial, data) ==
    [op |-> op, user |-> user, pk |-> pk, partial |-> partial, data |-> data]

Entry(id, amount) == [id |-> Some(id), amount |-> Some(amount)]

\* request bodies sent to the recipe endpoints
Borsch ==
    [name |-> Some("borsch"), text |-> Some("boil"), cooking_time |-> Some(1),
     image |-> Some("a.png"),
     ingredients |-> Some(<< Entry(1, 1) >>), tags |-> Some(<< 1 >>)]

Salad ==
    [name |-> Some("salad"), text |-> Some("mix"), cooking_time |-> Some(2),
     image |-> Some("b.png"),
     ingredients |-> Some(<< Entry(2, 2), Entry(1, 2) >>), tags |-> Some(<< 2 >>)]

\* tags and ingredients without scalar fields
ListsOnly ==
    [name |-> None, text |-> None, cooking_time |-> None, image |-> None,
     ingredients |-> Some(<< Entry(2, 1) >>), tags |-> Some(<< 1, 2 >>)]

NameOnly ==
    [name |-> Some("soup"), text |-> None, cooking_time |-> None, image |-> None,
     ingredients |-> None, tags |-> None]

\* tags without ingredients
TagsOnly ==
    [name |-> None, text |-> None, cooking_time |-> None, image |-> None,
     ingredients |-> None, tags |-> Some(<< 2 >>)]

\* ingredients without tags
IngredientsOnly ==
    [name |-> None, text |-> None, cooking_time |-> None, image |-> None,
     ingredients |-> Some(<< Entry(1, 2) >>), tags |-> None]

RecipePayloads == { Borsch, Salad, ListsOnly, NameOnly, TagsOnly, IngredientsOnly }

\* the field declarations of RecipeSerializer (serializers.py 169-188): every
\* writable field is required unless the serializer is partial, cooking_time
\* has min_value 1 and every tag id must be the key of a Tag row
run_field_validation(data, partial, tags_table) ==
    IF ~partial /\ (\/ data.name = None \/ data.text = None
                    \/ data.cooking_time = None \/ data.image = None
                    \/ data.ingredients = None \/ data.tags = None)
        THEN ValidationError("required", None)
    ELSE IF data.cooking_time # None /\ Val(data.cooking_time) < 1
        THEN ValidationError("min_value", None)
    ELSE IF data.tags # None /\ \E t \in Range(Val(data.tags)) : t \notin tags_table
        THEN ValidationError("does_not_exist", None)
    ELSE Validated(data)

\* author is read_only (serializers.py 169, 188): what a body gives under that
\* key is not taken into the validated data
writable_fields(data) == [f \in DOMAIN data \ {"author"} |-> data[f]]

\* serializer.is_valid: the fields first, then RecipeSerializer.validate
is_valid(data, partial, tags_table, ingredients_table) ==
    LET fields == run_field_validation(data, partial, tags_table)
    IN  IF ~fields.ok THEN fields
        ELSE validate(writable_fields(data), ingredients_table)

\* IsAuthenticated, and AuthorOrReadOnly.has_permission for an unsafe method
has_permission(user) == user # Anonymous

\* rest_framework.permissions.SAFE_METHODS
SAFE_METHODS == {"GET", "HEAD", "OPTIONS"}

\* AuthorOrReadOnly.has_permission (permissions.py 9-14), the permission
\* get_permissions (views.py 380-386) gives every action of RecipeViewSet but
\* list, retrieve and create, whatever the permission_classes of the
\* action's decorator
action_has_permission(method, user) ==
    method \in SAFE_METHODS \/ has_permission(user)

\* has_object_permission letting everyone through
has_object_permission_anyone(user, author) == TRUE

\* AuthorOrReadOnly.has_object_permission for an unsafe method
has_object_permission(user, author) == author = user \/ user \in StaffUsers

\* what a reader of recipe pk sees: the row, its tags and its ingredient lines
SnapshotOf(rows, tag_rows, ingredient_rows, pk) ==
    [name |-> rows[pk].name, text |-> rows[pk].text,
     cooking_time |-> rows[pk].cooking_time, image |-> rows[pk].image,
     tags |-> { r[2] : r \in { x \in tag_rows : x[1] = pk } },
     lines |-> { [ingredient |-> r.ingredient, quantity |-> r.quantity] :
                 r \in { x \in ingredient_rows : x.recipe = pk } }]

Snapshot(pk) == SnapshotOf(recipeRows, recipeTagRows, recipeIngredientRows, pk)

\* what a reader of recipe pk sees after the step
SnapshotAfter(pk) == SnapshotOf(recipeRows', recipeTagRows', recipeIngredientRows', pk)

\* the lines of a validated ingredient list, as a set
LineSet(lines) == { lines[i] : i \in DOMAIN lines }

\* instance.save(): UPDATE of every column of the row (INSERT when it is gone)
save_instance(rows, instance) ==
    (instance.pk :> [author |-> instance.author, name |-> instance.name,
                     text |-> instance.text, cooking_time |-> instance.cooking_time,
                     image |-> instance.image]) @@ rows

\* lines 314-320: validated_data.get(field, instance.field)
assign_fields(instance, validated_data) ==
    [instance EXCEPT
        !.name = IF validated_data.name = None THEN @ ELSE Val(validated_data.name),
        !.text = IF validated_data.text = None THEN @ ELSE Val(validated_data.text),
        !.cooking_time =
            IF validated_data.cooking_time = None THEN @ ELSE Val(validated_data.cooking_time),
        !.image = IF validated_data.image = None THEN @ ELSE Val(validated_data.image)]

\* instance.tags.set(tags_data): the recipe's tag rows become exactly tags_data
set_tags(tag_rows, pk, tags_data) ==
    { r \in tag_rows : r[1] # pk } \cup { << pk, t >> : t \in Range(tags_data) }

\* the delete of line 286 left out
delete_recipe_ingredients_none(ingredient_rows, pk) == ingredient_rows

\* line 286: recipe.recipe_ingredients.all().delete()
delete_recipe_ingredients(ingredient_rows, pk) ==
    { r \in ingredient_rows : r.recipe # pk }

\* lines 288-295: the rows built from the validated lines
new_recipe_ingredients(pk, ingredients) ==
    { [recipe |-> pk, ingredient |-> l.ingredient, quantity |-> l.quantity] :
      l \in LineSet(ingredients) }

\* the foreign keys of the rows of Recipe.tags (models.py 90-94), both with
\* on_delete CASCADE: tags.set inserts the rows of the tags the recipe does not
\* have yet, and the insert is refused when the recipe or a tag is gone
violates_tag_foreign_key(recipe_rows, tags_table, tag_rows, pk, tags_data) ==
    \E t \in Range(tags_data) :
        /\ << pk, t >> \notin tag_rows
        /\ pk \notin DOMAIN recipe_rows \/ t \notin tags_table

\* the foreign keys recipe and ingredient of RecipeIngredient (models.py
\* 107-116): the insert is refused when a row refers to a recipe or an
\* ingredient that is gone
violates_foreign_key(recipe_rows, ingredients_table, new_rows) ==
    \E n \in new_rows :
        n.recipe \notin DOMAIN recipe_rows \/ n.ingredient \notin DOMAIN ingredients_table

\* the table without the constraint unique_recipe_ingredient
violates_unique_recipe_ingredient_never(ingredient_rows, new_rows) == FALSE

\* unique_recipe_ingredient (models.py 128-132) refuses the insert
violates_unique_recipe_ingredient(ingredient_rows, new_rows) ==
    \E r \in ingredient_rows, n \in new_rows :
        r.recipe = n.recipe /\ r.ingredient = n.ingredient

\* the version of recipe pk an update writes: the assigned scalar fields with
\* the submitted tags and lines (the stored ones for a list that is omitted)
IntendedVersion(instance, validated_data, current) ==
    [name |-> instance.name, text |-> instance.text,
     cooking_time |-> instance.cooking_time, image |-> instance.image,
     tags |-> IF validated_data.tags = None THEN current.tags
              ELSE Range(Val(validated_data.tags)),
     lines |-> IF validated_data.ingredients = None THEN current.lines
               ELSE LineSet(Val(validated_data.ingredients))]

Free(c) == pc[c] = "idle"

\* the handler of client c begins to serve a request
Begin(c, request, locals, label) ==
    /\ pc' = [pc EXCEPT ![c] = label]
    /\ req' = [req EXCEPT ![c] = request]
    /\ loc' = [loc EXCEPT ![c] = locals]
    /\ resp' = [resp EXCEPT ![c] = None]

\* the handler returns: the request and its locals are gone, the response is
\* what is left
Return(c, op, user, pk, status, error, body) ==
    /\ pc' = [pc EXCEPT ![c] = "idle"]
    /\ req' = [req EXCEPT ![c] = NoRequest]
    /\ loc' = [loc EXCEPT ![c] = NoLocals]
    /\ resp' = [resp EXCEPT ![c] =
                    Some([op |-> op, user |-> user, pk |-> pk, status |-> status,
                          error |-> error, body |-> body])]

Goto(c, label) == pc' = [pc EXCEPT ![c] = label]

\* Recipe rows not yet inserted by the creates that passed validation
PendingCreates == Cardinality({ k \in Clients : pc[k] = "create_row" })

\* POST /recipes/ by user u with body d: IsAuthenticated, then serializer.is_valid
create_is_valid(c, u, d) ==
    /\ Free(c)
    /\ lastRecipeId + PendingCreates + 1 \in RecipeIds
    /\ LET v == is_valid(d, FALSE, tagRows, ingredientRows) IN
        IF ~has_permission(u)
            THEN Return(c, "create", u, 0, 401, "not_authenticated", None)
        ELSE IF v.ok
            THEN Begin(c, Request("create", u, 0, FALSE, Some(d)),
                       [NoLocals EXCEPT !.validated = v.data], "create_row")
            ELSE Return(c, "create", u, 0, 400, v.kind, None)
    /\ UNCHANGED << tables, versions, vdata, vresult >>

\* line 303: Recipe.objects.create(**validated_data), author from perform_create
create_row(c) ==
    /\ pc[c] = "create_row"
    /\ LET d == Val(loc[c].validated)
           instance == [pk |-> lastRecipeId + 1, author |-> req[c].user,
                        name |-> Val(d.name), text |-> Val(d.text),
                        cooking_time |-> Val(d.cooking_time), image |-> Val(d.image)]
       IN  /\ lastRecipeId' = lastRecipeId + 1
           /\ recipeRows' = save_instance(recipeRows, instance)
           /\ loc' = [loc EXCEPT ![c].instance = Some(instance)]
           /\ versions' = versions \cup
                  { << instance.pk, IntendedVersion(instance, d, [tags |-> {}, lines |-> {}]) >> }
    /\ Goto(c, "tags_set")
    /\ UNCHANGED << referenceTables, recipeTagRows, recipeIngredientRows,
                    req, resp, relationTables, vdata, vresult >>

\* the first step of an update whose save is given author=request.user, as
\* perform_create gives it to the save of a create
update_is_valid_author_from_request(c, u, pk, partial, d) ==
    /\ Free(c)
    /\ LET v == is_valid(d, partial, tagRows, ingredientRows) IN
        IF ~has_permission(u)
            THEN Return(c, "update", u, pk, 401, "not_authenticated", None)
        ELSE IF pk \notin DOMAIN recipeRows
            THEN Return(c, "update", u, pk, 404, "not_found", None)
        ELSE IF ~has_object_permission(u, recipeRows[pk].author)
            THEN Return(c, "update", u, pk, 403, "permission_denied", None)
        ELSE IF ~v.ok
            THEN Return(c, "update", u, pk, 400, v.kind, None)
        ELSE LET instance == [pk |-> pk, author |-> u,
                              name |-> recipeRows[pk].name, text |-> recipeRows[pk].text,
                              cooking_time |-> recipeRows[pk].cooking_time,
                              image |-> recipeRows[pk].image]
             IN  Begin(c, Request("update", u, pk, partial, Some(d)),
                       [NoLocals EXCEPT !.instance = Some(instance), !.validated = v.data],
                       "save1")
    /\ UNCHANGED << tables, versions, vdata, vresult >>

\* PUT (partial = FALSE) or PATCH (partial = TRUE) /recipes/pk/ by user u with
\* body d: AuthorOrReadOnly.has_permission, get_object with
\* AuthorOrReadOnly.has_object_permission, serializer.is_valid
update_is_valid(c, u, pk, partial, d) ==
    /\ Free(c)
    /\ LET v == is_valid(d, partial, tagRows, ingredientRows) IN
        IF ~has_permission(u)
            THEN Return(c, "update", u, pk, 401, "not_authenticated", None)
        ELSE IF pk \notin DOMAIN recipeRows
            THEN Return(c, "update", u, pk, 404, "not_found", None)
        ELSE IF ~has_object_permission(u, recipeRows[pk].author)
            THEN Return(c, "update", u, pk, 403, "permission_denied", None)
        ELSE IF ~v.ok
            THEN Return(c, "update", u, pk, 400, v.kind, None)
        ELSE LET instance == [pk |-> pk, author |-> recipeRows[pk].author,
                              name |-> recipeRows[pk].name, text |-> recipeRows[pk].text,
                              cooking_time |-> recipeRows[pk].cooking_time,
                              image |-> recipeRows[pk].image]
             IN  Begin(c, Request("update", u, pk, partial, Some(d)),
                       [NoLocals EXCEPT !.instance = Some(instance), !.validated = v.data],
                       "save1")
    /\ UNCHANGED << tables, versions, vdata, vresult >>

\* lines 314-321: the scalar fields are assigned and instance.save() writes the row
update_assign_save(c) ==
    /\ pc[c] = "save1"
    /\ LET d == Val(loc[c].validated)
           instance == assign_fields(Val(loc[c].instance), d)
       IN  /\ recipeRows' = save_instance(recipeRows, instance)
           /\ loc' = [loc EXCEPT ![c].instance = Some(instance)]
           /\ versions' = versions \cup
                  { << instance.pk, IntendedVersion(instance, d, Snapshot(instance.pk)) >> }
    /\ Goto(c, "tags_set")
    /\ UNCHANGED << referenceTables, recipeTagRows, recipeIngredientRows,
                    lastRecipeId, req, resp, relationTables, vdata, vresult >>

\* line 304 (create) and lines 323-324 (update): tags.set(tags_data)
tags_set(c) ==
    /\ pc[c] = "tags_set"
    /\ LET d == Val(loc[c].validated)
           pk == Val(loc[c].instance).pk
       IN  IF d.tags # None
              /\ violates_tag_foreign_key(recipeRows, tagRows, recipeTagRows, pk, Val(d.tags))
               THEN /\ recipeTagRows' = recipeTagRows
                    /\ Return(c, req[c].op, req[c].user, pk, 500, "IntegrityError", None)
           ELSE /\ recipeTagRows' =
                       IF d.tags # None THEN set_tags(recipeTagRows, pk, Val(d.tags))
                       ELSE recipeTagRows
                /\ Goto(c, IF req[c].op = "create" THEN "delete" ELSE "save2")
                /\ UNCHANGED << req, loc, resp >>
    /\ UNCHANGED << referenceTables, recipeRows, recipeIngredientRows,
                    lastRecipeId, versions, relationTables, vdata, vresult >>

\* line 325: instance.save() after the tags
update_save_after_tags(c) ==
    /\ pc[c] = "save2"
    /\ recipeRows' = save_instance(recipeRows, Val(loc[c].instance))
    /\ Goto(c, IF Val(loc[c].validated).ingredients # None THEN "delete" ELSE "save3")
    /\ UNCHANGED << referenceTables, recipeTagRows, recipeIngredientRows,
                    lastRecipeId, req, loc, resp, versions, relationTables, vdata, vresult >>

\* line 286: common_process_ingredients deletes the recipe's lines
ingredients_delete(c) ==
    /\ pc[c] = "delete"
    /\ recipeIngredientRows' =
           delete_recipe_ingredients(recipeIngredientRows, Val(loc[c].instance).pk)
    /\ Goto(c, "bulk_create")
    /\ UNCHANGED << referenceTables, recipeRows, recipeTagRows,
                    lastRecipeId, req, loc, resp, versions, relationTables, vdata, vresult >>

\* lines 288-296: one INSERT of all the new lines; the unique constraint on
\* (recipe, ingredient) and the foreign keys make it fail as a whole with
\* IntegrityError.  A create
\* returns 201 after it (line 307).
ingredients_bulk_create(c) ==
    /\ pc[c] = "bulk_create"
    /\ LET new_rows == new_recipe_ingredients(Val(loc[c].instance).pk,
                                              Val(Val(loc[c].validated).ingredients))
       IN  IF \/ violates_unique_recipe_ingredient(recipeIngredientRows, new_rows)
              \/ violates_foreign_key(recipeRows, ingredientRows, new_rows)
               THEN /\ recipeIngredientRows' = recipeIngredientRows
                    /\ Return(c, req[c].op, req[c].user, Val(loc[c].instance).pk, 500, "IntegrityError", None)
           ELSE /\ recipeIngredientRows' = recipeIngredientRows \cup new_rows
                /\ IF req[c].op = "create"
                       THEN Return(c, "create", req[c].user, Val(loc[c].instance).pk, 201, "ok", None)
                       ELSE /\ UNCHANGED << req, loc, resp >>
                            /\ Goto(c, "save3")
    /\ UNCHANGED << referenceTables, recipeRows, recipeTagRows,
                    lastRecipeId, versions, relationTables, vdata, vresult >>

\* lines 329-330: the last instance.save() and the 200 of the view
update_save_return(c) ==
    /\ pc[c] = "save3"
    /\ recipeRows' = save_instance(recipeRows, Val(loc[c].instance))
    /\ Return(c, "update", req[c].user, req[c].pk, 200, "ok", None)
    /\ UNCHANGED << referenceTables, recipeTagRows, recipeIngredientRows,
                    lastRecipeId, versions, relationTables, vdata, vresult >>

\* DELETE /recipes/pk/ by user u (ModelViewSet.destroy): has_permission,
\* get_object with has_object_permission, then instance.delete(), which
\* deletes in one transaction the row and the rows that refer to it
\* (on_delete=CASCADE: tags, ingredient lines, Favorite, ShoppingCart)
destroy(c, u, pk) ==
    /\ Free(c)
    /\ IF ~has_permission(u)
           THEN /\ Return(c, "destroy", u, pk, 401, "not_authenticated", None)
                /\ UNCHANGED << recipeRows, recipeTagRows, recipeIngredientRows,
                                shoppingCartRows, favoriteRows >>
       ELSE IF pk \notin DOMAIN recipeRows
           THEN /\ Return(c, "destroy", u, pk, 404, "not_found", None)
                /\ UNCHANGED << recipeRows, recipeTagRows, recipeIngredientRows,
                                shoppingCartRows, favoriteRows >>
       ELSE IF ~has_object_permission(u, recipeRows[pk].author)
           THEN /\ Return(c, "destroy", u, pk, 403, "permission_denied", None)
                /\ UNCHANGED << recipeRows, recipeTagRows, recipeIngredientRows,
                                shoppingCartRows, favoriteRows >>
       ELSE /\ recipeRows' = [k \in DOMAIN recipeRows \ {pk} |-> recipeRows[k]]
            /\ recipeTagRows' = { r \in recipeTagRows : r[1] # pk }
            /\ recipeIngredientRows' = delete_recipe_ingredients(recipeIngredientRows, pk)
            /\ shoppingCartRows' =
                   [p \in { x \in BagToSet(shoppingCartRows) : x[2] # pk } |-> shoppingCartRows[p]]
            /\ favoriteRows' =
                   [p \in { x \in BagToSet(favoriteRows) : x[2] # pk } |-> favoriteRows[p]]
            /\ Return(c, "destroy", u, pk, 204, "ok", None)
    /\ UNCHANGED << referenceTables, lastRecipeId, subscribeRows,
                    versions, vdata, vresult >>

\* GET /recipes/pk/: the reader; it is given the most favourable reading, the
\* row, the tags and the lines taken at one instant
retrieve(c, pk) ==
    /\ Free(c)
    /\ IF pk \in DOMAIN recipeRows
           THEN Return(c, "retrieve", 0, pk, 200, "ok", Some(Snapshot(pk)))
           ELSE Return(c, "retrieve", 0, pk, 404, "not_found", None)
    /\ UNCHANGED << tables, versions, vdata, vresult >>

\* client c begins to serve a request drawn from the given users, bodies and methods
RecipeBegin(c, users, payloads, partials) ==
    \/ \E u \in users, d \in payloads : create_is_valid(c, u, d)
    \/ \E u \in users, pk \in RecipeIds, partial \in partials, d \in payloads :
           update_is_valid(c, u, pk, partial, d)
    \/ \E pk \in RecipeIds : retrieve(c, pk)

\* the next statement of the request client c is serving
RecipeRun(c) ==
    \/ create_row(c)
    \/ update_assign_save(c)
    \/ tags_set(c)
    \/ update_save_after_tags(c)
    \/ ingredients_delete(c)
    \/ ingredients_bulk_create(c)
    \/ update_save_return(c)

InitRecipe ==
    /\ InitTables
    /\ InitClients
    /\ vdata = Attrs(CHOOSE s \in ScalarSets : s.name = None, None, None)
    /\ vresult = None

\* requests served side by side
NextRecipe ==
    \E c \in Clients :
        \/ RecipeBegin(c, {1}, {Borsch, Salad, ListsOnly, NameOnly}, {TRUE})
        \/ RecipeRun(c)

SpecRecipe == InitRecipe /\ [][NextRecipe]_vars

\* no other client is serving a request
Alone(c) == \A k \in Clients \ {c} : Free(k)

\* requests served one after the other: a request begins only while no other
\* is being served
NextRecipeSerial ==
    \E c \in Clients :
        \/ Alone(c) /\ RecipeBegin(c, Callers, RecipePayloads, BOOLEAN)
        \/ Alone(c) /\ \E u \in Callers, pk \in RecipeIds : destroy(c, u, pk)
        \/ RecipeRun(c)

SpecRecipeSerial == InitRecipe /\ [][NextRecipeSerial]_vars

(***************************************************************************)
(* Properties of recipe create and update.                                 *)
(***************************************************************************)
Done(c, op, status) ==
    /\ resp[c] # None
    /\ Val(resp[c]).op = op
    /\ Val(resp[c]).status = status

\* the lines a request body submits, as a reader sees them once stored
SubmittedLines(d) ==
    { [ingredient |-> Val(e.id), quantity |-> Val(e.amount)] :
      e \in Range(Val(d.ingredients)) }

\* C5: every recipe a reader is answered with is, as a whole (scalar fields,
\* tags and ingredient lines), one version written by a create or an update;
\* no reader sees a recipe between two statements of RecipeSerializer.create
\* or RecipeSerializer.update.
C5_ReadersSeeOneVersion ==
    \A c \in Clients :
        Done(c, "retrieve", 200) =>
            << Val(resp[c]).pk, Val(Val(resp[c]).body) >> \in versions

\* C6: a PATCH of an existing recipe by a permitted user that omits tags or
\* ingredients is accepted, and while it is served the omitted tag set, the
\* omitted ingredient lines and every omitted scalar field keep their values.
C6_OmittedListsRetained ==
    [][ /\ \A c \in Clients, u \in Users, pk \in RecipeIds, d \in RecipePayloads :
            ( /\ update_is_valid(c, u, pk, TRUE, d)
              /\ d.tags = None \/ d.ingredients = None
              /\ pk \in DOMAIN recipeRows
              /\ has_object_permission(u, recipeRows[pk].author) )
            => pc'[c] = "save1"
        /\ \A c \in Clients :
            (pc[c] # "idle" /\ req[c].op = "update") =>
                LET d == Val(req[c].data)
                    pk == req[c].pk
                IN  /\ d.tags = None => SnapshotAfter(pk).tags = Snapshot(pk).tags
                    /\ d.ingredients = None => SnapshotAfter(pk).lines = Snapshot(pk).lines
                    /\ d.name = None => recipeRows'[pk].name = recipeRows[pk].name
                    /\ d.text = None => recipeRows'[pk].text = recipeRows[pk].text
                    /\ d.cooking_time = None =>
                           recipeRows'[pk].cooking_time = recipeRows[pk].cooking_time
                    /\ d.image = None => recipeRows'[pk].image = recipeRows[pk].image
      ]_vars

\* C7: when an update that is served alone returns, the recipe's ingredient
\* lines are exactly the submitted ones and its tags exactly the submitted
\* ones: nothing of the prior set is left, nothing is merged.
C7_UpdateReplacesLists ==
    [][ \A c \in Clients :
            update_save_return(c) =>
                LET d == Val(req[c].data)
                    pk == req[c].pk
                IN  /\ d.ingredients # None => SnapshotAfter(pk).lines = SubmittedLines(d)
                    /\ d.tags # None => SnapshotAfter(pk).tags = Range(Val(d.tags))
      ]_vars

\* an update has returned 200 and the recipe holds the lines and tags of
\* ListsOnly, none of the lines an earlier version had
C7_Witness ==
    /\ \E c \in Clients : Done(c, "update", 200)
    /\ 1 \in DOMAIN recipeRows
    /\ Snapshot(1).lines = SubmittedLines(ListsOnly)
    /\ Snapshot(1).tags = {1, 2}
    /\ \E v \in versions : v[2].lines \cap Snapshot(1).lines = {}

(***************************************************************************)
(* The shopping cart: RecipeViewSet.shopping_cart (api/views.py 270-308)   *)
(* and RecipeViewSet.download_shopping_cart (310-341).                     *)
(***************************************************************************)
\* relation_create without the unique constraint of the table
relation_create_no_unique(rows, user, pk) == Validated(insert_row(rows, << user, pk >>))

\* ShoppingCart.objects.create / Favorite.objects.create: the INSERT, which the
\* unique constraint on (user, recipe) of BaseUserRecipeRelation refuses for
\* a pair that is stored
relation_create(rows, user, pk) ==
    IF row_exists(rows, << user, pk >>)
        THEN ValidationError("IntegrityError", None)
    ELSE Validated(insert_row(rows, << user, pk >>))

\* ShoppingCart.objects.filter(user=user, recipe=recipe).exists()
cart_item_exists(cart_rows, user, pk) == row_exists(cart_rows, << user, pk >>)

\* the test of lines 319-323 never taken
cart_exists_always(cart_rows, user) == TRUE

\* lines 317-319: ShoppingCart.objects.filter(user=user).exists()
cart_exists(cart_rows, user) == \E r \in BagToSet(cart_rows) : r[1] = user

\* line 326: [item.recipe for item in shopping_cart]
cart_recipes(cart_rows, user) ==
    { r[2] : r \in { x \in BagToSet(cart_rows) : x[1] = user } }

RECURSIVE SumQuantity(_)
\* Sum('quantity') over a set of RecipeIngredient rows
SumQuantity(rows) ==
    IF rows = {} THEN 0
    ELSE LET r == CHOOSE x \in rows : TRUE
         IN  r.quantity + SumQuantity(rows \ {r})

\* lines 324-329: the RecipeIngredient rows of the given recipes, grouped by
\* (ingredient__name, ingredient__measurement_unit), each group with the sum
\* of its quantities
aggregate_ingredients(ingredient_rows, ingredients_table, recipes) ==
    LET rows == { r \in ingredient_rows : r.recipe \in recipes }
        key(r) == << ingredients_table[r.ingredient].name,
                     ingredients_table[r.ingredient].measurement_unit >>
    IN  { [ingredient__name |-> k[1], ingredient__measurement_unit |-> k[2],
           total_amount |-> SumQuantity({ r \in rows : key(r) = k })] :
          k \in { key(r) : r \in rows } }

\* lines 330-336: shopping_list is a str, which has no append: the first
\* item of the loop raises AttributeError; without items the header is all
\* the document holds
build_shopping_list(ingredients) ==
    IF ingredients = {}
        THEN Validated([header |-> "Spisok pokupok:", lines |-> {}])
        ELSE ValidationError("AttributeError", None)

\* POST /recipes/pk/shopping_cart/: get_object_or_404 and the exists() test
cart_post_exists(c, u, pk) ==
    /\ Free(c)
    /\ IF ~action_has_permission("POST", u)
           THEN Return(c, "cart_post", u, pk, 401, "not_authenticated", None)
       ELSE IF pk \notin DOMAIN recipeRows
           THEN Return(c, "cart_post", u, pk, 404, "not_found", None)
       ELSE IF cart_item_exists(shoppingCartRows, u, pk)
           THEN Return(c, "cart_post", u, pk, 400, "AlreadyInCart", None)
       ELSE Begin(c, Request("cart_post", u, pk, FALSE, None), NoLocals, "cart_create")
    /\ UNCHANGED << tables, versions, vdata, vresult >>

\* line 288: ShoppingCart.objects.create; the foreign key refuses a row of a
\* recipe that is gone, unique (user, recipe) refuses a second row
cart_create(c) ==
    /\ pc[c] = "cart_create"
    /\ LET created == relation_create(shoppingCartRows, req[c].user, req[c].pk) IN
        IF req[c].pk \notin DOMAIN recipeRows
           THEN /\ UNCHANGED shoppingCartRows
                /\ Return(c, "cart_post", req[c].user, req[c].pk, 500, "IntegrityError", None)
        ELSE IF ~created.ok
           THEN /\ UNCHANGED shoppingCartRows
                /\ Return(c, "cart_post", req[c].user, req[c].pk, 500, created.kind, None)
           ELSE /\ shoppingCartRows' = Val(created.data)
                /\ Return(c, "cart_post", req[c].user, req[c].pk, 201, "ok", None)
    /\ UNCHANGED << referenceTables, recipeRows, recipeTagRows,
                    recipeIngredientRows, lastRecipeId, favoriteRows, subscribeRows,
                    versions, vdata, vresult >>

\* DELETE /recipes/pk/shopping_cart/: get_object_or_404 and the exists() test
cart_delete_exists(c, u, pk) ==
    /\ Free(c)
    /\ IF ~action_has_permission("DELETE", u)
           THEN Return(c, "cart_delete", u, pk, 401, "not_authenticated", None)
       ELSE IF pk \notin DOMAIN recipeRows
           THEN Return(c, "cart_delete", u, pk, 404, "not_found", None)
       ELSE IF ~cart_item_exists(shoppingCartRows, u, pk)
           THEN Return(c, "cart_delete", u, pk, 400, "NotInCart", None)
       ELSE Begin(c, Request("cart_delete", u, pk, FALSE, None), NoLocals, "cart_delete")
    /\ UNCHANGED << tables, versions, vdata, vresult >>

\* line 304: cart_item.delete()
cart_delete(c) ==
    /\ pc[c] = "cart_delete"
    /\ shoppingCartRows' = delete_rows(shoppingCartRows, << req[c].user, req[c].pk >>)
    /\ Return(c, "cart_delete", req[c].user, req[c].pk, 204, "ok", None)
    /\ UNCHANGED << referenceTables, recipeRows, recipeTagRows,
                    recipeIngredientRows, lastRecipeId, favoriteRows, subscribeRows,
                    versions, vdata, vresult >>

\* GET /recipes/download_shopping_cart/, lines 316-323: the permission of
\* get_permissions, then the exists() test.  For a caller without a token
\* request.user is AnonymousUser, and ShoppingCart.objects.filter(user=user)
\* of line 317 raises TypeError.
download_shopping_cart(c, u) ==
    /\ Free(c)
    /\ IF ~action_has_permission("GET", u)
           THEN Return(c, "download", u, 0, 401, "not_authenticated", None)
       ELSE IF u = Anonymous
           THEN Return(c, "download", u, 0, 500, "TypeError", None)
       ELSE IF ~cart_exists(shoppingCartRows, u)
           THEN Return(c, "download", u, 0, 400, "EmptyCart", None)
           ELSE Begin(c, Request("download", u, 0, FALSE, None), NoLocals, "download_cart")
    /\ UNCHANGED << tables, versions, vdata, vresult >>

\* line 326: the cart is read again for the recipes of its items
download_cart(c) ==
    /\ pc[c] = "download_cart"
    /\ loc' = [loc EXCEPT ![c].recipes = Some(cart_recipes(shoppingCartRows, req[c].user))]
    /\ Goto(c, "download_list")
    /\ UNCHANGED << tables, req, resp, versions, vdata, vresult >>

\* lines 324-341: the grouped query, the loop over it and the response
download_list(c) ==
    /\ pc[c] = "download_list"
    /\ LET ingredients == aggregate_ingredients(recipeIngredientRows, ingredientRows,
                                                Val(loc[c].recipes))
           shopping_list == build_shopping_list(ingredients)
       IN  IF shopping_list.ok
               THEN Return(c, "download", req[c].user, 0, 200, "ok", shopping_list.data)
               ELSE Return(c, "download", req[c].user, 0, 500, shopping_list.kind, None)
    /\ UNCHANGED << tables, versions, vdata, vresult >>

\* POST /recipes/pk/favorite/, lines 349-357: get_object_or_404 and the exists() test
favorite_post_exists(c, u, pk) ==
    /\ Free(c)
    /\ IF ~action_has_permission("POST", u)
           THEN Return(c, "favorite_post", u, pk, 401, "not_authenticated", None)
       ELSE IF pk \notin DOMAIN recipeRows
           THEN Return(c, "favorite_post", u, pk, 404, "not_found", None)
       ELSE IF row_exists(favoriteRows, << u, pk >>)
           THEN Return(c, "favorite_post", u, pk, 400, "AlreadyInFavorite", None)
       ELSE Begin(c, Request("favorite_post", u, pk, FALSE, None), NoLocals, "favorite_create")
    /\ UNCHANGED << tables, versions, vdata, vresult >>

\* line 358: Favorite.objects.create; the foreign key refuses a row of a
\* recipe that is gone, unique (user, recipe) refuses a second row
favorite_create(c) ==
    /\ pc[c] = "favorite_create"
    /\ LET created == relation_create(favoriteRows, req[c].user, req[c].pk) IN
        IF req[c].pk \notin DOMAIN recipeRows
           THEN /\ UNCHANGED favoriteRows
                /\ Return(c, "favorite_post", req[c].user, req[c].pk, 500, "IntegrityError", None)
        ELSE IF ~created.ok
           THEN /\ UNCHANGED favoriteRows
                /\ Return(c, "favorite_post", req[c].user, req[c].pk, 500, created.kind, None)
           ELSE /\ favoriteRows' = Val(created.data)
                /\ Return(c, "favorite_post", req[c].user, req[c].pk, 201, "ok", None)
    /\ UNCHANGED << referenceTables, recipeRows, recipeTagRows,
                    recipeIngredientRows, lastRecipeId, shoppingCartRows, subscribeRows,
                    versions, vdata, vresult >>

\* DELETE /recipes/pk/favorite/, lines 364-373: get_object_or_404 and the exists() test
favorite_delete_exists(c, u, pk) ==
    /\ Free(c)
    /\ IF ~action_has_permission("DELETE", u)
           THEN Return(c, "favorite_delete", u, pk, 401, "not_authenticated", None)
       ELSE IF pk \notin DOMAIN recipeRows
           THEN Return(c, "favorite_delete", u, pk, 404, "not_found", None)
       ELSE IF ~row_exists(favoriteRows, << u, pk >>)
           THEN Return(c, "favorite_delete", u, pk, 400, "NotInFavorite", None)
       ELSE Begin(c, Request("favorite_delete", u, pk, FALSE, None), NoLocals, "favorite_delete")
    /\ UNCHANGED << tables, versions, vdata, vresult >>

\* line 374: favorite_item.delete()
favorite_delete(c) ==
    /\ pc[c] = "favorite_delete"
    /\ favoriteRows' = delete_rows(favoriteRows, << req[c].user, req[c].pk >>)
    /\ Return(c, "favorite_delete", req[c].user, req[c].pk, 204, "ok", None)
    /\ UNCHANGED << referenceTables, recipeRows, recipeTagRows,
                    recipeIngredientRows, lastRecipeId, shoppingCartRows, subscribeRows,
                    versions, vdata, vresult >>

CartStep(c) ==
    \/ \E u \in Users, pk \in DOMAIN recipeRows : cart_post_exists(c, u, pk)
    \/ cart_create(c)
    \/ \E u \in Users, pk \in DOMAIN recipeRows : cart_delete_exists(c, u, pk)
    \/ cart_delete(c)
    \/ \E u \in Users : download_shopping_cart(c, u)
    \/ download_cart(c)
    \/ download_list(c)

\* recipes as RecipeSerializer.create leaves them: recipe 1 with Salt (g) 5 and
\* Egg (pcs) 2, recipe 2 with Salt (g) 3 and Salt (kg) 1; recipe 3 is a recipe
\* whose create has inserted the row and the tags and not yet the lines
CartRecipeRows ==
    [pk \in {1, 2, 3} |-> [author |-> 1, name |-> "borsch", text |-> "boil",
                           cooking_time |-> 1, image |-> "a.png"]]

CartRecipeIngredientRows ==
    { [recipe |-> 1, ingredient |-> 1, quantity |-> 5],
      [recipe |-> 1, ingredient |-> 2, quantity |-> 2],
      [recipe |-> 2, ingredient |-> 1, quantity |-> 3],
      [recipe |-> 2, ingredient |-> 3, quantity |-> 1] }

InitCart ==
    /\ InitReference
    /\ recipeRows = CartRecipeRows
    /\ recipeTagRows = { << pk, 1 >> : pk \in DOMAIN CartRecipeRows }
    /\ recipeIngredientRows = CartRecipeIngredientRows
    /\ lastRecipeId = Cardinality(DOMAIN CartRecipeRows)
    /\ shoppingCartRows = EmptyBag
    /\ favoriteRows = EmptyBag
    /\ subscribeRows = EmptyBag
    /\ InitClients
    /\ vdata = Attrs(CHOOSE s \in ScalarSets : s.name = None, None, None)
    /\ vresult = None

NextCart == \E c \in Clients : CartStep(c)

SpecCart == InitCart /\ [][NextCart]_vars

\* the cart of user u
CartOf(u) == cart_recipes(shoppingCartRows, u)

\* the lines the export owes user u: one per (name, unit) of the ingredient
\* lines of the recipes in the cart, with the total of the quantities
ExpectedLines(u) ==
    LET rows == { r \in recipeIngredientRows : r.recipe \in CartOf(u) }
        name(r) == ingredientRows[r.ingredient].name
        unit(r) == ingredientRows[r.ingredient].measurement_unit
    IN  { << name(r), unit(r),
             SumQuantity({ x \in rows : name(x) = name(r) /\ unit(x) = unit(r) }) >> :
          r \in rows }

\* C8: when the export of a user with a non-empty cart returns, it returns
\* 200 with a document holding exactly one line "{name} ({unit}) - {total}"
\* per (name, unit) of the ingredient lines of the cart's recipes, total being
\* the sum of their quantities.
C8_ExportSumsPerNameAndUnit ==
    [][ \A c \in Clients :
            (download_list(c) /\ CartOf(req[c].user) # {}) =>
                /\ Val(resp'[c]).status = 200
                /\ { << l.ingredient__name, l.ingredient__measurement_unit, l.total_amount >> :
                     l \in Val(Val(resp'[c]).body).lines } = ExpectedLines(req[c].user)
      ]_vars

\* C9: the export of a user whose cart holds no recipe answers 400 EmptyCart
\* at once and carries no document.
C9_EmptyCartIsAnError ==
    [][ \A c \in Clients, u \in Users :
            (download_shopping_cart(c, u) /\ CartOf(u) = {}) =>
                /\ pc'[c] = "idle"
                /\ resp'[c] = Some([op |-> "download", user |-> u, pk |-> 0, status |-> 400,
                                    error |-> "EmptyCart", body |-> None])
      ]_vars

\* a user with an empty cart was answered 400 EmptyCart while the other
\* user's cart holds a recipe
C9_Witness ==
    \E c \in Clients :
        /\ Done(c, "download", 400)
        /\ Val(resp[c]).error = "EmptyCart"
        /\ Val(resp[c]).body = None
        /\ CartOf(Val(resp[c]).user) = {}
        /\ \E u \in Users : CartOf(u) # {}

(***************************************************************************)
(* Subscriptions: UserViewSet.subscribe (api/views.py 159-226) with        *)
(* SubscribeSerializer.validate (api/serializers.py 398-414) and           *)
(* Subscribe.clean / save (recipes/models.py 157-165).                     *)
(***************************************************************************)
\* primary keys a subscribe request may name: the users and one that is no user
RequestUserIds == Users \cup {9}

\* recipes_limit of the request body: absent, a number, not a number
RecipesLimits == { None, Some("3"), Some("abc") }

\* int(recipes_limit) raises ValueError
is_not_int(recipes_limit) == recipes_limit = "abc"

\* SubscribeSerializer.validate without the test of lines 410-413
subscribe_validate_no_self_test(subscribe_rows, user, subscription) ==
    IF row_exists(subscribe_rows, << user, subscription >>)
        THEN ValidationError("AlreadySubscribed", None)
    ELSE Validated(subscription)

\* SubscribeSerializer.validate, lines 398-414
subscribe_validate(subscribe_rows, user, subscription) ==
    IF row_exists(subscribe_rows, << user, subscription >>)
        THEN ValidationError("AlreadySubscribed", None)
    ELSE IF user = subscription
        THEN ValidationError("SelfSubscription", None)
    ELSE Validated(subscription)

\* Subscribe.save on a table without the unique constraint
subscribe_save_no_unique(subscribe_rows, user, subscription) ==
    IF user = subscription
        THEN ValidationError("django.ValidationError", None)
    ELSE Validated(insert_row(subscribe_rows, << user, subscription >>))

\* Subscribe.save (models.py 157-165): clean() raises for a self-subscription,
\* then the INSERT, which the unique constraint on (user, subscription) can refuse
subscribe_save(subscribe_rows, user, subscription) ==
    IF user = subscription
        THEN ValidationError("django.ValidationError", None)
    ELSE IF row_exists(subscribe_rows, << user, subscription >>)
        THEN ValidationError("IntegrityError", None)
    ELSE Validated(insert_row(subscribe_rows, << user, subscription >>))

\* subscribe.delete() deleting nothing
delete_subscription_none(subscribe_rows, user, subscription) == subscribe_rows

\* line 214: subscribe.delete() of the queryset of lines 205-208
delete_subscription(subscribe_rows, user, subscription) ==
    delete_rows(subscribe_rows, << user, subscription >>)

\* the validation step of a subscribe request with a serializer whose
\* validate() stores the row it has just accepted
subscribe_is_valid_saving(c, u, pk, recipes_limit) ==
    /\ Free(c)
    /\ LET v == subscribe_validate(subscribeRows, u, pk) IN
        IF pk \notin Users
            THEN /\ Return(c, "subscribe", u, pk, 404, "not_found", None)
                 /\ UNCHANGED subscribeRows
        ELSE IF ~v.ok
            THEN /\ Return(c, "subscribe", u, pk, 400, v.kind, None)
                 /\ UNCHANGED subscribeRows
        ELSE /\ Begin(c, Request("subscribe", u, pk, FALSE, recipes_limit), NoLocals,
                      "subscribe_save")
             /\ subscribeRows' = insert_row(subscribeRows, << u, pk >>)
    /\ UNCHANGED << referenceTables, recipeRows, recipeTagRows,
                    recipeIngredientRows, lastRecipeId, shoppingCartRows, favoriteRows,
                    versions, vdata, vresult >>

\* POST /users/pk/subscribe/ by user u: get_object_or_404, then is_valid
subscribe_is_valid(c, u, pk, recipes_limit) ==
    /\ Free(c)
    /\ LET v == subscribe_validate(subscribeRows, u, pk) IN
        IF pk \notin Users
            THEN Return(c, "subscribe", u, pk, 404, "not_found", None)
        ELSE IF ~v.ok
            THEN Return(c, "subscribe", u, pk, 400, v.kind, None)
        ELSE Begin(c, Request("subscribe", u, pk, FALSE, recipes_limit), NoLocals,
                   "subscribe_save")
    /\ UNCHANGED << tables, versions, vdata, vresult >>

\* lines 176-202: serializer.save(user=user), then the response: 400 when
\* recipes_limit is not a number, else 201
subscribe_save_respond(c) ==
    /\ pc[c] = "subscribe_save"
    /\ LET saved == subscribe_save(subscribeRows, req[c].user, req[c].pk)
           recipes_limit == req[c].data
       IN  IF ~saved.ok
               THEN /\ UNCHANGED subscribeRows
                    /\ Return(c, "subscribe", req[c].user, req[c].pk, 500, saved.kind, None)
           ELSE /\ subscribeRows' = Val(saved.data)
                /\ IF recipes_limit # None /\ is_not_int(Val(recipes_limit))
                       THEN Return(c, "subscribe", req[c].user, req[c].pk, 400,
                                   "recipes_limit", None)
                       ELSE Return(c, "subscribe", req[c].user, req[c].pk, 201, "ok", None)
    /\ UNCHANGED << referenceTables, recipeRows, recipeTagRows,
                    recipeIngredientRows, lastRecipeId, shoppingCartRows, favoriteRows,
                    versions, vdata, vresult >>

\* DELETE /users/pk/subscribe/ by user u, lines 204-213
unsubscribe_exists(c, u, pk) ==
    /\ Free(c)
    /\ IF pk \notin Users
           THEN Return(c, "unsubscribe", u, pk, 404, "not_found", None)
       ELSE IF ~row_exists(subscribeRows, << u, pk >>)
           THEN Return(c, "unsubscribe", u, pk, 400, "NotSubscribed", None)
       ELSE Begin(c, Request("unsubscribe", u, pk, FALSE, None), NoLocals, "unsubscribe_delete")
    /\ UNCHANGED << tables, versions, vdata, vresult >>

\* line 214: subscribe.delete()
unsubscribe_delete(c) ==
    /\ pc[c] = "unsubscribe_delete"
    /\ subscribeRows' = delete_subscription(subscribeRows, req[c].user, req[c].pk)
    /\ Goto(c, "unsubscribe_check")
    /\ UNCHANGED << referenceTables, recipeRows, recipeTagRows,
                    recipeIngredientRows, lastRecipeId, shoppingCartRows, favoriteRows,
                    req, loc, resp, versions, vdata, vresult >>

\* lines 215-226: the row is looked up once more
unsubscribe_check(c) ==
    /\ pc[c] = "unsubscribe_check"
    /\ IF row_exists(subscribeRows, << req[c].user, req[c].pk >>)
           THEN Return(c, "unsubscribe", req[c].user, req[c].pk, 500, "delete_failed", None)
           ELSE Return(c, "unsubscribe", req[c].user, req[c].pk, 204, "ok", None)
    /\ UNCHANGED << tables, versions, vdata, vresult >>

\* client c begins to serve a subscribe or an unsubscribe request
SubscribeBegin(c) ==
    \/ \E u \in Users, pk \in RequestUserIds, recipes_limit \in RecipesLimits :
           subscribe_is_valid(c, u, pk, recipes_limit)
    \/ \E u \in Users, pk \in RequestUserIds : unsubscribe_exists(c, u, pk)

\* the next statement of the request client c is serving
SubscribeRun(c) ==
    \/ subscribe_save_respond(c)
    \/ unsubscribe_delete(c)
    \/ unsubscribe_check(c)

SubscribeStep(c) == SubscribeBegin(c) \/ SubscribeRun(c)

InitSubscribe == InitRecipe

NextSubscribe == \E c \in Clients : SubscribeStep(c)

SpecSubscribe == InitSubscribe /\ [][NextSubscribe]_vars

\* requests served one after the other
NextSubscribeSerial ==
    \E c \in Clients :
        \/ Alone(c) /\ SubscribeBegin(c)
        \/ SubscribeRun(c)

SpecSubscribeSerial == InitSubscribe /\ [][NextSubscribeSerial]_vars

\* C10: a subscribe request of a user to himself is answered SelfSubscription
\* and one for a pair that is stored is answered AlreadySubscribed, in every
\* reachable state, and neither changes the subscriptions.
C10_SelfAndRepeatedSubscription ==
    [][ \A c \in Clients, u \in Users, pk \in RequestUserIds, l \in RecipesLimits :
            subscribe_is_valid(c, u, pk, l) =>
                /\ u = pk =>
                       /\ pc'[c] = "idle"
                       /\ Val(resp'[c]).status = 400
                       /\ Val(resp'[c]).error = "SelfSubscription"
                       /\ subscribeRows' = subscribeRows
                /\ row_exists(subscribeRows, << u, pk >>) =>
                       /\ pc'[c] = "idle"
                       /\ Val(resp'[c]).status = 400
                       /\ Val(resp'[c]).error = "AlreadySubscribed"
                       /\ subscribeRows' = subscribeRows
      ]_vars

\* one client was answered SelfSubscription, the other AlreadySubscribed for a
\* pair that is stored
C10_Witness ==
    \E c, k \in Clients :
        /\ Done(c, "subscribe", 400)
        /\ Val(resp[c]).error = "SelfSubscription"
        /\ Val(resp[c]).user = Val(resp[c]).pk
        /\ Done(k, "subscribe", 400)
        /\ Val(resp[k]).error = "AlreadySubscribed"
        /\ row_exists(subscribeRows, << Val(resp[k]).user, Val(resp[k]).pk >>)

\* the rows of a table but for those that hold the pair
WithoutPair(rows, pair) == [p \in BagToSet(rows) \ {pair} |-> CopiesIn(p, rows)]

\* C11: served without another request in between, an unsubscribe of a pair
\* of users that is not stored is answered 400 NotSubscribed and changes no
\* subscription; an unsubscribe of a stored pair is carried out, removes that
\* pair and no other and is answered 204 with the pair gone, so that the next
\* unsubscribe of it is answered NotSubscribed.
C11_UnsubscribeReportsNotSubscribed ==
    [][ /\ \A c \in Clients, u \in Users, pk \in Users :
            unsubscribe_exists(c, u, pk) =>
                IF CopiesIn(<< u, pk >>, subscribeRows) = 0
                    THEN /\ pc'[c] = "idle"
                         /\ Val(resp'[c]).status = 400
                         /\ Val(resp'[c]).error = "NotSubscribed"
                         /\ subscribeRows' = subscribeRows
                    ELSE pc'[c] = "unsubscribe_delete"
        /\ \A c \in Clients :
            unsubscribe_delete(c) =>
                /\ CopiesIn(<< req[c].user, req[c].pk >>, subscribeRows) > 0
                /\ subscribeRows' = WithoutPair(subscribeRows, << req[c].user, req[c].pk >>)
        /\ \A c \in Clients :
            unsubscribe_check(c) =>
                /\ Val(resp'[c]).status = 204
                /\ CopiesIn(<< req[c].user, req[c].pk >>, subscribeRows') = 0
      ]_vars

\* an unsubscribe of a pair was answered 204 and another unsubscribe of the
\* same pair NotSubscribed, while the other user's subscription is stored
C11_Witness ==
    \E c, k \in Clients :
        /\ Done(c, "unsubscribe", 204)
        /\ Done(k, "unsubscribe", 400)
        /\ Val(resp[k]).error = "NotSubscribed"
        /\ Val(resp[k]).user = Val(resp[c]).user
        /\ Val(resp[k]).pk = Val(resp[c]).pk
        /\ CopiesIn(<< Val(resp[c]).user, Val(resp[c]).pk >>, subscribeRows) = 0
        /\ CopiesIn(<< Val(resp[c]).pk, Val(resp[c]).user >>, subscribeRows) = 1

\* C12: whatever the interleaving of subscribe and unsubscribe requests, every
\* stored (user, target) pair is stored in one row only and no stored pair has
\* user = target.
C12_SubscriptionsUniqueAndNotSelf ==
    \A p \in BagToSet(subscribeRows) :
        /\ CopiesIn(p, subscribeRows) = 1
        /\ p[1] # p[2]

\* two subscribe requests for the same pair both passed the existence check:
\* one stored the pair, the other was refused by the unique constraint
C12_Witness ==
    \E c, k \in Clients :
        /\ Done(c, "subscribe", 201)
        /\ Done(k, "subscribe", 500)
        /\ Val(resp[k]).error = "IntegrityError"
        /\ Val(resp[k]).user = Val(resp[c]).user
        /\ Val(resp[k]).pk = Val(resp[c]).pk
        /\ CopiesIn(<< Val(resp[c]).user, Val(resp[c]).pk >>, subscribeRows) = 1

(***************************************************************************)
(* Favorite and ShoppingCart entries: RecipeViewSet.favorite (api/views.py *)
(* 343-378) and RecipeViewSet.shopping_cart (270-308) served side by side. *)
(***************************************************************************)
\* primary keys the requests name: the stored recipes
RelationRecipeIds == {1}

RelationStep(c) ==
    \/ \E u \in Users, pk \in RelationRecipeIds : cart_post_exists(c, u, pk)
    \/ cart_create(c)
    \/ \E u \in Users, pk \in RelationRecipeIds : cart_delete_exists(c, u, pk)
    \/ cart_delete(c)
    \/ \E u \in Users, pk \in RelationRecipeIds : favorite_post_exists(c, u, pk)
    \/ favorite_create(c)
    \/ \E u \in Users, pk \in RelationRecipeIds : favorite_delete_exists(c, u, pk)
    \/ favorite_delete(c)

InitRelations ==
    /\ InitReference
    /\ recipeRows = [pk \in RelationRecipeIds |-> CartRecipeRows[pk]]
    /\ recipeTagRows = { << pk, 1 >> : pk \in RelationRecipeIds }
    /\ recipeIngredientRows = { r \in CartRecipeIngredientRows : r.recipe \in RelationRecipeIds }
    /\ lastRecipeId = Cardinality(RelationRecipeIds)
    /\ shoppingCartRows = EmptyBag
    /\ favoriteRows = EmptyBag
    /\ subscribeRows = EmptyBag
    /\ InitClients
    /\ vdata = Attrs(CHOOSE s \in ScalarSets : s.name = None, None, None)
    /\ vresult = None

NextRelations == \E c \in Clients : RelationStep(c)

SpecRelations == InitRelations /\ [][NextRelations]_vars

\* every row of the table but those of the pair is as it was
OtherPairsKept(rows, rows_after, pair) ==
    \A p \in (BagToSet(rows) \cup BagToSet(rows_after)) \ {pair} :
        CopiesIn(p, rows_after) = CopiesIn(p, rows)

\* the answer of the step is an error and the step leaves both tables as they were
RefusedUnchanged(c) ==
    /\ pc'[c] = "idle"
    /\ Val(resp'[c]).status >= 400
    /\ shoppingCartRows' = shoppingCartRows
    /\ favoriteRows' = favoriteRows

\* C13: whatever the interleaving of the requests, a (user, recipe) pair is
\* in at most one ShoppingCart row and in at most one Favorite row; a request
\* that adds a stored pair and a request that removes a pair that is not
\* stored are answered with an error and change nothing; a step of a request
\* on one kind changes no row of the other kind and no row of another pair.
C13_EntriesUniquePerKind ==
    /\ [](\A p \in BagToSet(shoppingCartRows) : CopiesIn(p, shoppingCartRows) = 1)
    /\ [](\A p \in BagToSet(favoriteRows) : CopiesIn(p, favoriteRows) = 1)
    /\ [][ /\ \A c \in Clients, u \in Users, pk \in RelationRecipeIds :
               /\ (cart_post_exists(c, u, pk) /\ CopiesIn(<< u, pk >>, shoppingCartRows) > 0)
                      => RefusedUnchanged(c)
               /\ (cart_delete_exists(c, u, pk) /\ CopiesIn(<< u, pk >>, shoppingCartRows) = 0)
                      => RefusedUnchanged(c)
               /\ (favorite_post_exists(c, u, pk) /\ CopiesIn(<< u, pk >>, favoriteRows) > 0)
                      => RefusedUnchanged(c)
               /\ (favorite_delete_exists(c, u, pk) /\ CopiesIn(<< u, pk >>, favoriteRows) = 0)
                      => RefusedUnchanged(c)
           /\ \A c \in Clients :
               LET pair == << req[c].user, req[c].pk >> IN
               /\ (cart_create(c) /\ CopiesIn(pair, shoppingCartRows) > 0)
                      => RefusedUnchanged(c)
               /\ (favorite_create(c) /\ CopiesIn(pair, favoriteRows) > 0)
                      => RefusedUnchanged(c)
               /\ (cart_create(c) \/ cart_delete(c)) =>
                      /\ favoriteRows' = favoriteRows
                      /\ OtherPairsKept(shoppingCartRows, shoppingCartRows', pair)
               /\ (favorite_create(c) \/ favorite_delete(c)) =>
                      /\ shoppingCartRows' = shoppingCartRows
                      /\ OtherPairsKept(favoriteRows, favoriteRows', pair)
          ]_vars

\* two requests adding the same pair to the cart both passed the exists()
\* test and the unique constraint refused the second, while the favorites hold
\* an entry of the other user
C13_Witness ==
    \E c, k \in Clients :
        /\ Done(c, "cart_post", 201)
        /\ Done(k, "cart_post", 500)
        /\ Val(resp[k]).user = Val(resp[c]).user
        /\ CopiesIn(<< Val(resp[c]).user, 1 >>, shoppingCartRows) = 1
        /\ \E u \in Users \ {Val(resp[c]).user} : CopiesIn(<< u, 1 >>, favoriteRows) = 1

(***************************************************************************)
(* Who may change a recipe: AuthorOrReadOnly (api/permissions.py 6-20) as  *)
(* RecipeViewSet.get_permissions (api/views.py 380-386) applies it.        *)
(***************************************************************************)
\* the step changes no row of any table
TablesUnchanged == UNCHANGED tables

\* the step is one of client c, who was serving no request
Begins(c) == Free(c) /\ (pc'[c] # pc[c] \/ resp'[c] # resp[c])

\* the request client c begins to serve in the step: it is answered at once
\* or it is the request c is left serving
Begun(c) == IF pc'[c] = "idle" THEN Val(resp'[c]) ELSE req'[c]

\* the step begins a PUT, a PATCH or a DELETE of a stored recipe by a caller
\* who is not its author
ChangeByOther(c) ==
    /\ Begins(c)
    /\ Begun(c).op \in {"update", "destroy"}
    /\ Begun(c).pk \in DOMAIN recipeRows
    /\ Begun(c).user # recipeRows[Begun(c).pk].author

\* C14 as claimed: an update, a partial update or a delete of a stored recipe
\* requested by anyone but its author is refused and changes nothing.
C14_OnlyTheAuthorChanges ==
    [][ \A c \in Clients :
            ChangeByOther(c) =>
                /\ pc'[c] = "idle"
                /\ Val(resp'[c]).status >= 400
                /\ TablesUnchanged
      ]_vars

\* C14 as amended: an update, a partial update or a delete of a stored recipe
\* requested by a caller who is neither its author nor a staff user is refused
\* with 401 or 403, whatever its body, and changes nothing.
C14_OnlyAuthorOrStaffChanges ==
    [][ \A c \in Clients :
            (ChangeByOther(c) /\ Begun(c).user \notin StaffUsers) =>
                /\ pc'[c] = "idle"
                /\ Val(resp'[c]).status = (IF Begun(c).user = Anonymous THEN 401 ELSE 403)
                /\ TablesUnchanged
      ]_vars

\* a user who is neither the author nor staff was refused an update and a
\* delete of a recipe that is still stored
C14_Witness ==
    \E c, k \in Clients :
        /\ 1 \in DOMAIN recipeRows
        /\ Done(c, "update", 403)
        /\ Done(k, "destroy", 403)
        /\ Val(resp[c]).user # recipeRows[1].author
        /\ Val(resp[c]).user \notin StaffUsers
        /\ Val(resp[k]).user = Val(resp[c]).user

(***************************************************************************)
(* The reference data endpoints: IngredientViewSet and TagViewSet          *)
(* (api/views.py 393-407).  Both are ModelViewSets, so the router gives    *)
(* them create, update, partial_update and destroy besides list and        *)
(* retrieve.  IngredientViewSet sets no permission_classes and gets the    *)
(* IsAuthenticated of settings.py 148-150; TagViewSet sets AllowAny.       *)
(***************************************************************************)
\* bodies a request to /ingredients/ carries: a stored (name, unit) and a new one
RequestIngredientBodies ==
    { [name |-> "Salt", measurement_unit |-> "g"],
      [name |-> "Sugar", measurement_unit |-> "g"] }

\* unique_ingredient_name_unit (models.py 48-53): no row but pk holds the body
ingredient_is_unique(ingredients_table, pk, body) ==
    \A k \in DOMAIN ingredients_table \ {pk} : ingredients_table[k] # body

\* the answers to a body that breaks the constraint: 400 when the serializer
\* has a validator for it, else the IntegrityError of the INSERT or UPDATE
NotUniqueStatus == {400, 500}

\* what a request to a reference endpoint leaves alone besides the tables it names
ReferenceFrame ==
    UNCHANGED << recipeRows, lastRecipeId, relationTables, versions, vdata, vresult >>

\* POST /ingredients/ by caller u
ingredient_create(c, u, body) ==
    /\ Free(c)
    /\ lastReferenceId.ingredient < Cardinality(DOMAIN IngredientTable) + MaxNewReferenceRows
    /\ IF ~has_permission(u)
           THEN /\ Return(c, "ingredient_create", u, 0, 401, "not_authenticated", None)
                /\ UNCHANGED referenceTables
       ELSE IF ~ingredient_is_unique(ingredientRows, 0, body)
           THEN /\ \E status \in NotUniqueStatus :
                       Return(c, "ingredient_create", u, 0, status, "unique", None)
                /\ UNCHANGED referenceTables
       ELSE /\ ingredientRows' = ((lastReferenceId.ingredient + 1) :> body) @@ ingredientRows
            /\ lastReferenceId' = [lastReferenceId EXCEPT !.ingredient = @ + 1]
            /\ UNCHANGED tagRows
            /\ Return(c, "ingredient_create", u, lastReferenceId.ingredient + 1, 201, "ok", None)
    /\ UNCHANGED << recipeTagRows, recipeIngredientRows >>
    /\ ReferenceFrame

\* PUT or PATCH /ingredients/pk/ by caller u
ingredient_update(c, u, pk, body) ==
    /\ Free(c)
    /\ IF ~has_permission(u)
           THEN /\ Return(c, "ingredient_update", u, pk, 401, "not_authenticated", None)
                /\ UNCHANGED ingredientRows
       ELSE IF pk \notin DOMAIN ingredientRows
           THEN /\ Return(c, "ingredient_update", u, pk, 404, "not_found", None)
                /\ UNCHANGED ingredientRows
       ELSE IF ~ingredient_is_unique(ingredientRows, pk, body)
           THEN /\ \E status \in NotUniqueStatus :
                       Return(c, "ingredient_update", u, pk, status, "unique", None)
                /\ UNCHANGED ingredientRows
       ELSE /\ ingredientRows' = [ingredientRows EXCEPT ![pk] = body]
            /\ Return(c, "ingredient_update", u, pk, 200, "ok", None)
    /\ UNCHANGED << tagRows, lastReferenceId, recipeTagRows, recipeIngredientRows >>
    /\ ReferenceFrame

\* DELETE /ingredients/pk/ by caller u: the row goes and with it, in the same
\* transaction, the RecipeIngredient rows that refer to it (models.py 112-116)
ingredient_destroy(c, u, pk) ==
    /\ Free(c)
    /\ IF ~has_permission(u)
           THEN /\ Return(c, "ingredient_destroy", u, pk, 401, "not_authenticated", None)
                /\ UNCHANGED << ingredientRows, recipeIngredientRows >>
       ELSE IF pk \notin DOMAIN ingredientRows
           THEN /\ Return(c, "ingredient_destroy", u, pk, 404, "not_found", None)
                /\ UNCHANGED << ingredientRows, recipeIngredientRows >>
       ELSE /\ ingredientRows' = [k \in DOMAIN ingredientRows \ {pk} |-> ingredientRows[k]]
            /\ recipeIngredientRows' = { r \in recipeIngredientRows : r.ingredient # pk }
            /\ Return(c, "ingredient_destroy", u, pk, 204, "ok", None)
    /\ UNCHANGED << tagRows, lastReferenceId, recipeTagRows >>
    /\ ReferenceFrame

\* POST /tags/ by caller u, with a name and a slug no Tag row holds
tag_create(c, u) ==
    /\ Free(c)
    /\ lastReferenceId.tag < Cardinality(TagTable) + MaxNewReferenceRows
    /\ tagRows' = tagRows \cup {lastReferenceId.tag + 1}
    /\ lastReferenceId' = [lastReferenceId EXCEPT !.tag = @ + 1]
    /\ Return(c, "tag_create", u, lastReferenceId.tag + 1, 201, "ok", None)
    /\ UNCHANGED << ingredientRows, recipeTagRows, recipeIngredientRows >>
    /\ ReferenceFrame

\* DELETE /tags/pk/ by caller u: the row goes and with it, in the same
\* transaction, the rows of Recipe.tags that refer to it (models.py 90-94)
tag_destroy(c, u, pk) ==
    /\ Free(c)
    /\ IF pk \notin tagRows
           THEN /\ Return(c, "tag_destroy", u, pk, 404, "not_found", None)
                /\ UNCHANGED << tagRows, recipeTagRows >>
           ELSE /\ tagRows' = tagRows \ {pk}
                /\ recipeTagRows' = { r \in recipeTagRows : r[2] # pk }
                /\ Return(c, "tag_destroy", u, pk, 204, "ok", None)
    /\ UNCHANGED << ingredientRows, lastReferenceId, recipeIngredientRows >>
    /\ ReferenceFrame

\* primary keys the requests to the reference endpoints name
ReferenceIds == {1, 2}

\* client c serves a request to a reference endpoint
ReferenceStep(c) ==
    \/ \E u \in Callers, body \in RequestIngredientBodies : ingredient_create(c, u, body)
    \/ \E u \in Callers, pk \in ReferenceIds, body \in RequestIngredientBodies :
           ingredient_update(c, u, pk, body)
    \/ \E u \in Callers, pk \in ReferenceIds : ingredient_destroy(c, u, pk)
    \/ \E u \in Callers : tag_create(c, u)
    \/ \E u \in Callers, pk \in ReferenceIds : tag_destroy(c, u, pk)

\* requests to the recipe and to the reference endpoints, served one after
\* the other by one handler
NextReference ==
    \E c \in {1} :
        \/ RecipeBegin(c, {1}, {Borsch, ListsOnly}, {TRUE})
        \/ ReferenceStep(c)
        \/ RecipeRun(c)

SpecReference == InitRecipe /\ [][NextReference]_vars

\* C15: no request changes the reference data: the Ingredient rows and the
\* Tag rows are in every reachable state the rows the database was loaded
\* with.
C15_ReferenceDataImmutable ==
    [][ingredientRows' = ingredientRows /\ tagRows' = tagRows]_vars

\* C16: whenever no request is being served, every stored recipe has at least
\* one ingredient line and at least one tag.
C16_RecipeHasLinesAndTags ==
    (\A c \in Clients : Free(c)) =>
        \A pk \in DOMAIN recipeRows :
            /\ Snapshot(pk).lines # {}
            /\ Snapshot(pk).tags # {}

\* C17: in every reachable state, the states between the statements of
\* interleaved updates of one recipe included, no recipe has two ingredient
\* lines of the same ingredient and every ingredient line has quantity >= 1.
C17_LinesUniqueAndPositive ==
    \A r \in recipeIngredientRows :
        /\ r.quantity >= 1
        /\ \A q \in recipeIngredientRows :
               (q.recipe = r.recipe /\ q.ingredient = r.ingredient) => q = r

\* two updates of recipe 1 interleaved: the lines of the one were inserted
\* between the delete and the insert of the other, whose insert the unique
\* constraint refused
C17_Witness ==
    \E c, k \in Clients :
        /\ Done(c, "update", 500)
        /\ Val(resp[c]).error = "IntegrityError"
        /\ Done(k, "update", 200)
        /\ Cardinality({ r \in recipeIngredientRows : r.recipe = 1 }) >= 1

(***************************************************************************)
(* More properties of RecipeSerializer.validate.                           *)
(***************************************************************************)
\* entry i has both fields, an amount < 1, and every entry before it passes
BadAmountAfterPassed(i) ==
    /\ ~EntryMissing(i)
    /\ EntryBadAmount(i)
    /\ \A j \in 1..(i - 1) : ~EntryFails(j)

\* C18 as claimed, read for the drafts whose tags let the walk over the
\* entries begin: an entry with both fields and an amount < 1 whose
\* predecessors all passed makes validate fail with InvalidAmount for the
\* entry's id, whatever the entries before it are.
C18_InvalidAmountWhateverPrecedes ==
    (VCalled /\ TagsAcceptable) =>
        \A i \in DOMAIN VIngredients :
            BadAmountAfterPassed(i) =>
                VResult = ValidationError("InvalidAmount", VIngredients[i].id)

\* C18 as amended: with a non-empty duplicate-free tag list, an entry with both
\* fields and an amount < 1 whose predecessors all passed and whose id none of
\* them has makes validate fail with InvalidAmount for the entry's id, stored
\* or not; when a predecessor has its id, validate fails with
\* DuplicateIngredient for that id.
C18_InvalidAmountUnlessDuplicate ==
    (VCalled /\ TagsAcceptable) =>
        \A i \in DOMAIN VIngredients :
            BadAmountAfterPassed(i) =>
                VResult = ValidationError(
                              IF EntryDuplicate(i) THEN "DuplicateIngredient"
                              ELSE "InvalidAmount",
                              VIngredients[i].id)

\* a second entry with amount 0 and an id that is not stored, after a first
\* entry that passed
C18_Witness ==
    /\ VCalled /\ TagsAcceptable
    /\ Len(VIngredients) = 2
    /\ BadAmountAfterPassed(2)
    /\ ~EntryDuplicate(2)
    /\ EntryNotFound(2)
    /\ VResult.kind = "InvalidAmount"

\* the drafts around the one of the end-to-end example: tags [1, 2] and two
\* entries with ids of stored ingredients, amounts absent, 0, 2 or 3
EndToEndItems ==
    [id : { Some(1), Some(10) },
     amount : { None, Some(0), Some(2), Some(3) }]

EndToEndDrafts ==
    { Attrs(s, Some(<< e1, e2 >>), Some(<< 1, 2 >>)) :
        s \in ScalarSets, e1 \in EndToEndItems, e2 \in EndToEndItems }

\* an Ingredient table in which the id 10 of the example is a stored row
InitEndToEnd ==
    /\ ingredientRows =
           IngredientTable @@ (10 :> [name |-> "Milk", measurement_unit |-> "ml"])
    /\ tagRows = TagTable
    /\ lastReferenceId = [ingredient |-> 10, tag |-> Cardinality(TagTable)]
    /\ recipeRows = << >>
    /\ recipeTagRows = {}
    /\ recipeIngredientRows = {}
    /\ lastRecipeId = 0
    /\ shoppingCartRows = EmptyBag
    /\ favoriteRows = EmptyBag
    /\ subscribeRows = EmptyBag
    /\ InitClients
    /\ vdata \in EndToEndDrafts
    /\ vresult = None

SpecEndToEnd == InitEndToEnd /\ [][NextValidate]_vars

\* C19: the draft with tags [1, 2] and ingredients [{id 10, amount 2},
\* {id 10, amount 3}] fails with DuplicateIngredient(10), and so it does
\* whatever amount the second entry carries: the repeated id is reported
\* before the amount of its entry is looked at.
C19_DuplicateBeforeAmount ==
    ( /\ VCalled
      /\ VTags = << 1, 2 >>
      /\ Len(VIngredients) = 2
      /\ VIngredients[1] = Entry(10, 2)
      /\ VIngredients[2].id = Some(10)
      /\ VIngredients[2].amount # None )
    => VResult = ValidationError("DuplicateIngredient", Some(10))

\* the draft of the example has been validated
C19_Witness ==
    /\ VCalled
    /\ VTags = << 1, 2 >>
    /\ VIngredients = << Entry(10, 2), Entry(10, 3) >>
    /\ 10 \in DOMAIN ingredientRows
    /\ VResult = ValidationError("DuplicateIngredient", Some(10))

\* the draft a successful validate returned, handed to validate as it is: a
\* line is a dict with the keys 'ingredient' and 'quantity'
OutputAsInput(out) ==
    LET lines == Val(out.ingredients)
    IN  [out EXCEPT !.ingredients = Some([i \in DOMAIN lines |-> read_item(lines[i])])]

\* the draft a successful validate returned, each line written back as an
\* entry: id the line's ingredient, amount the line's quantity
OutputAsEntries(out) ==
    LET lines == Val(out.ingredients)
    IN  [out EXCEPT !.ingredients =
            Some([i \in DOMAIN lines |-> Entry(lines[i].ingredient, lines[i].quantity)])]

\* C20 as claimed: the draft a successful validate returned, handed to
\* validate again, is accepted and returned as it is.
C20_RevalidationOfOutput ==
    (VCalled /\ VResult.ok) =>
        validate(OutputAsInput(Val(VResult.data)), ingredientRows) = VResult

\* C20 as amended: the draft a successful validate returned is accepted again
\* and returned as it is once each of its lines is written back as an entry
\* (id, amount); handed back unchanged it fails with MissingField.
C20_RevalidationOfEntries ==
    (VCalled /\ VResult.ok) =>
        /\ validate(OutputAsEntries(Val(VResult.data)), ingredientRows) = VResult
        /\ validate(OutputAsInput(Val(VResult.data)), ingredientRows) =
               ValidationError("MissingField", None)

\* a draft of two entries with different ids and a name has been accepted
C20_Witness ==
    /\ VCalled /\ VResult.ok
    /\ Len(Val(Val(VResult.data).ingredients)) = 2
    /\ VIngredients[1].id # VIngredients[2].id
    /\ Len(VTags) = 2
    /\ vdata.text # None

(***************************************************************************)
(* The validation step of the write requests: RecipeSerializer.validate    *)
(* (api/serializers.py 223-275) as is_valid runs it for a create and an    *)
(* update, and SubscribeSerializer.validate (398-414) as is_valid runs it  *)
(* for a subscribe request, on one server with recipes and subscriptions.  *)
(***************************************************************************)
\* one handler serving recipe and subscription requests
NextValidation ==
    \E c \in {1} :
        \/ RecipeBegin(c, Users, {Borsch, ListsOnly, NameOnly}, BOOLEAN)
        \/ RecipeRun(c)
        \/ SubscribeStep(c)

SpecValidation == InitRecipe /\ [][NextValidation]_vars

\* the step is the validation step of a recipe create, a recipe update or a
\* subscribe request of client c: the request is refused or passed on to the
\* writes
ValidationStep(c) ==
    /\ Begins(c)
    /\ Begun(c).op \in {"create", "update", "subscribe"}

\* C21: the step in which RecipeSerializer.validate or
\* SubscribeSerializer.validate runs writes nothing: whether the request is
\* refused or passed on, the recipes, ingredient lines, tags, cart entries,
\* favorites, subscriptions and reference rows are after it what they were
\* before it.
C21_ValidationWritesNothing ==
    [][ \A c \in Clients : ValidationStep(c) => TablesUnchanged ]_vars

\* an update of a stored recipe with lines has passed validation and is about
\* to write, while a subscription is stored
C21_Witness ==
    \E c \in Clients :
        /\ pc[c] = "save1"
        /\ loc[c].validated # None
        /\ Snapshot(req[c].pk).lines # {}
        /\ subscribeRows # EmptyBag

(***************************************************************************)
(* Two updates of one recipe served side by side: RecipeSerializer.update  *)
(* (api/serializers.py 309-330) with common_process_ingredients (283-296)  *)
(* and the constraint unique_recipe_ingredient (recipes/models.py 126-133).*)
(* Every body carries an ingredient list and a tag list.                   *)
(***************************************************************************)
NextConcurrentUpdates ==
    \E c \in Clients :
        \/ RecipeBegin(c, {1}, {Borsch, Salad, ListsOnly}, {TRUE})
        \/ RecipeRun(c)

SpecConcurrentUpdates == InitRecipe /\ [][NextConcurrentUpdates]_vars

\* the last request of client c was an update of recipe pk that went past
\* validation, and it has been answered
UpdateFinished(c, pk) ==
    /\ pc[c] = "idle"
    /\ resp[c] # None
    /\ Val(resp[c]).op = "update"
    /\ Val(resp[c]).pk = pk
    /\ Val(resp[c]).status \in {200, 500}

\* C22: once the updates of a recipe that the two clients were serving have
\* both been answered, neither answer is a storage error and the recipe is,
\* as a whole (scalar fields, tags and ingredient lines), the version one
\* update wrote: its lines are one submitted list, never the union of two.
C22_ConcurrentUpdatesLeaveOneVersion ==
    \A pk \in RecipeIds :
        (\A c \in Clients : UpdateFinished(c, pk)) =>
            /\ \A c \in Clients : Val(resp[c]).status = 200
            /\ << pk, Snapshot(pk) >> \in versions

(***************************************************************************)
(* What a subscribe POST that is answered an error leaves behind           *)
(* (UserViewSet.subscribe, api/views.py 165-202).                          *)
(***************************************************************************)
\* the step answers a subscribe POST of client c
SubscribeAnswered(c) ==
    /\ pc'[c] = "idle"
    /\ resp'[c] # resp[c]
    /\ resp'[c] # None
    /\ Val(resp'[c]).op = "subscribe"

\* C23: a subscribe POST adds a subscription row exactly when it is answered
\* 201: the step that answers it an error status, the 400 for a
\* recipes_limit that is no number included, leaves the subscriptions as
\* they were.
C23_ErrorAnswerCreatesNothing ==
    [][ \A c \in Clients :
            SubscribeAnswered(c) =>
                (subscribeRows' # subscribeRows <=> Val(resp'[c]).status = 201)
      ]_vars

(***************************************************************************)
(* Callers without a token at the cart, favorite and export actions:       *)
(* RecipeViewSet.get_permissions (api/views.py 380-386) and                *)
(* AuthorOrReadOnly.has_permission (api/permissions.py 9-14).              *)
(***************************************************************************)
\* client c begins or goes on serving a cart, favorite or export request
\* of any caller
CallerStep(c) ==
    \/ \E u \in Callers, pk \in RelationRecipeIds : cart_post_exists(c, u, pk)
    \/ cart_create(c)
    \/ \E u \in Callers, pk \in RelationRecipeIds : cart_delete_exists(c, u, pk)
    \/ cart_delete(c)
    \/ \E u \in Callers, pk \in RelationRecipeIds : favorite_post_exists(c, u, pk)
    \/ favorite_create(c)
    \/ \E u \in Callers, pk \in RelationRecipeIds : favorite_delete_exists(c, u, pk)
    \/ favorite_delete(c)
    \/ \E u \in Callers : download_shopping_cart(c, u)
    \/ download_cart(c)
    \/ download_list(c)

NextCallers == \E c \in Clients : CallerStep(c)

SpecCallers == InitRelations /\ [][NextCallers]_vars

\* the step begins a cart, favorite or export request of a caller without a token
AnonymousAction(c) ==
    /\ Begins(c)
    /\ Begun(c).op \in {"cart_post", "cart_delete", "favorite_post", "favorite_delete",
                        "download"}
    /\ Begun(c).user = Anonymous

\* C24: a shopping_cart, favorite or download_shopping_cart request of a
\* caller who is not authenticated is refused by the permission check: it is
\* answered 401 not_authenticated at once, before any statement of the
\* action runs, and changes nothing.
C24_AnonymousRefusedBeforeAction ==
    [][ \A c \in Clients :
            AnonymousAction(c) =>
                /\ pc'[c] = "idle"
                /\ Val(resp'[c]).status = 401
                /\ Val(resp'[c]).error = "not_authenticated"
                /\ TablesUnchanged
      ]_vars

(***************************************************************************)
(* The author of a recipe: RecipeViewSet.get_permissions and               *)
(* perform_create (api/views.py 380-390), the read-only author field of    *)
(* RecipeSerializer (api/serializers.py 169, 188) and                      *)
(* RecipeSerializer.update (309-330).                                      *)
(***************************************************************************)
\* a full body that also names an author, user 2
SoupOfOther ==
    [name |-> Some("soup"), text |-> Some("stir"), cooking_time |-> Some(3),
     image |-> Some("c.png"),
     ingredients |-> Some(<< Entry(1, 1) >>), tags |-> Some(<< 2 >>),
     author |-> Some(2)]

\* requests served one after the other, by any caller, bodies with and
\* without an author
NextAuthorship ==
    \E c \in Clients :
        \/ Alone(c) /\ RecipeBegin(c, Callers, {Borsch, NameOnly, SoupOfOther}, BOOLEAN)
        \/ Alone(c) /\ \E u \in Callers, pk \in RecipeIds : destroy(c, u, pk)
        \/ RecipeRun(c)

SpecAuthorship == InitRecipe /\ [][NextAuthorship]_vars

\* C25: every stored recipe has a user as its author; a create of a caller
\* who is not authenticated is refused with 401 and stores nothing; the row a
\* create inserts has the requesting user as its author, whatever the body
\* says; and no step changes the author of a stored recipe, whoever updates
\* it and whatever the body says.
C25_AuthorIsCreatorForever ==
    /\ [](\A pk \in DOMAIN recipeRows : recipeRows[pk].author \in Users)
    /\ [][ /\ \A c \in Clients :
               /\ (Begins(c) /\ Begun(c).op = "create" /\ Begun(c).user = Anonymous) =>
                      /\ pc'[c] = "idle"
                      /\ Val(resp'[c]).status = 401
                      /\ TablesUnchanged
               /\ create_row(c) =>
                      \A pk \in DOMAIN recipeRows' \ DOMAIN recipeRows :
                          recipeRows'[pk].author = req[c].user
           /\ \A pk \in DOMAIN recipeRows \cap DOMAIN recipeRows' :
               recipeRows'[pk].author = recipeRows[pk].author
         ]_vars

\* a recipe created by user 1 has been updated by staff user 2 with a body
\* naming user 2 as the author: the update is answered 200, the body's name
\* is stored and the author is still user 1
C25_Witness ==
    \E c \in Clients :
        /\ Done(c, "update", 200)
        /\ Val(resp[c]).user = 2
        /\ 1 \in DOMAIN recipeRows
        /\ recipeRows[1].name = "soup"
        /\ recipeRows[1].author = 1

(***************************************************************************)
(* Referential integrity: the foreign keys of RecipeIngredient             *)
(* (recipes/models.py 104-124), Favorite and ShoppingCart (172-216), all   *)
(* on_delete CASCADE, with recipes created, updated and deleted while      *)
(* carts and favorites are filled and a cart is exported                   *)
(* (api/views.py 314-329).                                                 *)
(***************************************************************************)
\* the author, user 1, writes and deletes recipes and deletes ingredients;
\* user 2 fills the cart and the favorites and exports the cart; the requests
\* are served side by side
IntegrityStep(c) ==
    \/ RecipeBegin(c, {1}, {Borsch, ListsOnly}, {TRUE})
    \/ RecipeRun(c)
    \/ \E pk \in RecipeIds : destroy(c, 1, pk)
    \/ \E pk \in ReferenceIds : ingredient_destroy(c, 1, pk)
    \/ \E pk \in RecipeIds : cart_post_exists(c, 2, pk)
    \/ cart_create(c)
    \/ \E pk \in RecipeIds : favorite_post_exists(c, 2, pk)
    \/ favorite_create(c)
    \/ download_shopping_cart(c, 2)
    \/ download_cart(c)
    \/ download_list(c)

NextIntegrity == \E c \in Clients : IntegrityStep(c)

SpecIntegrity == InitRecipe /\ [][NextIntegrity]_vars

\* every ingredient line is of a stored recipe and a stored ingredient, every
\* Favorite and ShoppingCart row of a user and a stored recipe
ReferencesExist ==
    /\ \A r \in recipeIngredientRows :
           r.recipe \in DOMAIN recipeRows /\ r.ingredient \in DOMAIN ingredientRows
    /\ \A p \in BagToSet(favoriteRows) \cup BagToSet(shoppingCartRows) :
           p[1] \in Users /\ p[2] \in DOMAIN recipeRows

=============================================================================
